---- MODULE Spec2Model ----
(***************************************************************************)
(* A model of the RabbitWine multiplayer server (src/multi_server.py):     *)
(* the per-level diff stores, the portal graph with its cross-level        *)
(* mirroring, the connection directory, the broadcast fan-out and the      *)
(* session protocol of handle_client.                                      *)
(*                                                                         *)
(* Cell keys are the strings "gx,gy" and "gx,gy,y" of the wire protocol;   *)
(* they are modelled by the tuple of their comma-separated parts, so that  *)
(* key.split(',') is the tuple itself and len(parts) is its length.        *)
(* The asyncio scheduling is modelled at its suspension points: a handler  *)
(* runs atomically up to an `await asyncio.gather(...)` of sends; the      *)
(* sends of one gather run together later; the code after the gather runs  *)
(* later still.  Other handlers may run in between.                        *)
(***************************************************************************)
EXTENDS Integers, Sequences, FiniteSets, TLC

\* ------------------------------------------------------------------ constants
TTL_MS == 3000
MAP_W_DEFAULT == 24
MAP_H_DEFAULT == 24
TILE_LEVELCHANGE == 8
MAX_OPS_PER_BATCH == 512
KEY_MAX_LEN == 64
DEST_MAX_LEN == 64

\* type tags of MapDiff.adds
NORMAL == 0
HAZARD == 1
FENCE == 2
HAZARD_FENCE == 3
HALF_SLAB == 4
PORTAL_SPAN == 5
LOCK == 6
NOCLIMB == 9

TypeTags == {NORMAL, HAZARD, FENCE, HAZARD_FENCE, HALF_SLAB, PORTAL_SPAN, LOCK, NOCLIMB}

\* the tags an op dict carries under 't' (the others are sent without 't')
TaggedTypes == {1, 2, 3, 4, 5, 6, 9}
\* the tags map_sync and level_change write under 't'
TaggedTypesNoLock == {1, 2, 3, 4, 5, 9}

\* an op dict without 't'
NoT == -1

\* ------------------------------------------------------------------ bounds
MaxVersion == 4
MaxQueue == 2
MaxNow == 3002
MaxSlack == 2

\* ------------------------------------------------------------------ helpers
Min(a, b) == IF a < b THEN a ELSE b
Max(a, b) == IF a > b THEN a ELSE b

Range(s) == {s[i] : i \in 1..Len(s)}

\* a cap that lets every op through
Truncate_Whole(s, n) == s

\* lst[:n]
Truncate(s, n) == SubSeq(s, 1, Min(Len(s), n))

\* d[k] = v
Put(d, k, v) == [x \in (DOMAIN d) \cup {k} |-> IF x = k THEN v ELSE d[x]]

\* d.pop(k, None)
Pop(d, k) == [x \in (DOMAIN d) \ {k} |-> d[x]]

EmptyDict == [x \in {} |-> 0]

\* number of characters of the decimal form of an integer
RECURSIVE NumLen(_)
NumLen(n) == IF n < 0 THEN 1 + NumLen(-n) ELSE IF n < 10 THEN 1 ELSE 1 + NumLen(n \div 10)

\* len(key) of the string "p1,p2,..."
RECURSIVE PartsLen(_, _)
PartsLen(k, i) == IF i > Len(k) THEN 0 ELSE NumLen(k[i]) + PartsLen(k, i + 1)

KeyLen(k) == IF Len(k) = 0 THEN 0 ELSE PartsLen(k, 1) + (Len(k) - 1)

\* ------------------------------------------------------------------ MapDiff
NewMapDiff == [version |-> 1, adds |-> EmptyDict, removes |-> {}]

NewTileDiff == [version |-> 1, set |-> EmptyDict]

\* get_mapdiff(level): the stores after the lazy creation
get_mapdiff(diffs, level) ==
    IF level \in DOMAIN diffs THEN diffs ELSE Put(diffs, level, NewMapDiff)

get_tilediff(tiles, level) ==
    IF level \in DOMAIN tiles THEN tiles ELSE Put(tiles, level, NewTileDiff)

\* int(tval_raw) with the fallback to 0, then the closed enumeration
NormalizeT(raw) == IF raw \in TaggedTypes THEN raw ELSE NORMAL

\* **({'t':tt} if tt in (...) else {})
Tag(tt, tagged) == IF tt \in tagged THEN tt ELSE NoT

ValidEditEntry(e) ==
    /\ e.op \in {"add", "remove"}
    /\ KeyLen(e.key) > 0
    /\ KeyLen(e.key) <= KEY_MAX_LEN

IndexOfKey(last, key) ==
    IF \E i \in 1..Len(last) : last[i].key = key
    THEN CHOOSE i \in 1..Len(last) : last[i].key = key
    ELSE 0

\* the dict `last`: one entry per key, in the order of the keys' first valid
\* occurrence, holding the key's last valid entry
BuildLastOne(last, e) ==
    LET ent == IF e.op = "add"
               THEN [key |-> e.key, op |-> "add", tt |-> NormalizeT(e.t)]
               ELSE [key |-> e.key, op |-> "remove", tt |-> 0]
        j == IndexOfKey(last, e.key)
    IN  IF ~ValidEditEntry(e) THEN last
        ELSE IF j = 0 THEN Append(last, ent)
        ELSE [last EXCEPT ![j] = ent]

\* the entries lo..hi, one after the other: the first half, then the second from
\* what the first half left (the comparison has the first half evaluated before
\* the second starts)
RECURSIVE BuildLastRange(_, _, _, _)
BuildLastRange(raw_ops, lo, hi, last) ==
    IF lo > hi THEN last
    ELSE IF lo = hi THEN BuildLastOne(last, raw_ops[lo])
    ELSE LET half == BuildLastRange(raw_ops, lo, (lo + hi) \div 2, last)
         IN  IF half = last THEN BuildLastRange(raw_ops, (lo + hi) \div 2 + 1, hi, last)
             ELSE BuildLastRange(raw_ops, (lo + hi) \div 2 + 1, hi, half)

\* the dict `last` where the first valid entry of a key wins
BuildLast_FirstWins(raw_ops, i, last) ==
    BuildLastRange([j \in 1..Len(raw_ops) |-> raw_ops[Len(raw_ops) + 1 - j]], i, Len(raw_ops), last)

BuildLast(raw_ops, i, last) == BuildLastRange(raw_ops, i, Len(raw_ops), last)

\* ApplyOne where an add leaves the key in removes
ApplyOne_KeepRemoves(md, net, ent) ==
    IF ent.op = "add"
    THEN IF ent.key \notin DOMAIN md.adds \/ md.adds[ent.key] # ent.tt
         THEN [md |-> [md EXCEPT !.adds = Put(md.adds, ent.key, ent.tt)],
               net |-> Append(net, [op |-> "add", key |-> ent.key, t |-> Tag(ent.tt, TaggedTypes)])]
         ELSE [md |-> md, net |-> net]
    ELSE [md |-> [md EXCEPT !.adds = Pop(md.adds, ent.key), !.removes = md.removes \cup {ent.key}],
          net |-> IF (ent.key \in DOMAIN md.adds) \/ (ent.key \notin md.removes)
                  THEN Append(net, [op |-> "remove", key |-> ent.key, t |-> NoT])
                  ELSE net]

\* ApplyOne where a type change of a present key is stored but not returned
ApplyOne_SilentRetag(md, net, ent) ==
    IF ent.op = "add"
    THEN IF ent.key \notin DOMAIN md.adds
         THEN [md |-> [md EXCEPT !.adds = Put(md.adds, ent.key, ent.tt),
                                 !.removes = md.removes \ {ent.key}],
               net |-> Append(net, [op |-> "add", key |-> ent.key, t |-> Tag(ent.tt, TaggedTypes)])]
         ELSE [md |-> [md EXCEPT !.adds = Put(md.adds, ent.key, ent.tt)], net |-> net]
    ELSE [md |-> [md EXCEPT !.adds = Pop(md.adds, ent.key), !.removes = md.removes \cup {ent.key}],
          net |-> IF (ent.key \in DOMAIN md.adds) \/ (ent.key \notin md.removes)
                  THEN Append(net, [op |-> "remove", key |-> ent.key, t |-> NoT])
                  ELSE net]

\* one iteration of the loop over last.items(): the MapDiff and net afterwards
ApplyOne(md, net, ent) ==
    IF ent.op = "add"
    THEN IF ent.key \notin DOMAIN md.adds
         THEN [md |-> [md EXCEPT !.adds = Put(md.adds, ent.key, ent.tt),
                                 !.removes = md.removes \ {ent.key}],
               net |-> Append(net, [op |-> "add", key |-> ent.key, t |-> Tag(ent.tt, TaggedTypes)])]
         ELSE IF md.adds[ent.key] # ent.tt
              THEN [md |-> [md EXCEPT !.adds = Put(md.adds, ent.key, ent.tt)],
                    net |-> Append(net, [op |-> "add", key |-> ent.key, t |-> Tag(ent.tt, TaggedTypes)])]
              ELSE [md |-> md, net |-> net]
    ELSE LET changed == (ent.key \in DOMAIN md.adds) \/ (ent.key \notin md.removes)
         IN  [md |-> [md EXCEPT !.adds = Pop(md.adds, ent.key),
                                !.removes = md.removes \cup {ent.key}],
              net |-> IF changed THEN Append(net, [op |-> "remove", key |-> ent.key, t |-> NoT])
                      ELSE net]

RECURSIVE ApplyLast(_, _, _, _)
ApplyLast(md, last, i, net) ==
    IF i > Len(last) THEN [md |-> md, net |-> net]
    ELSE LET r == ApplyOne(md, net, last[i])
         IN  ApplyLast(r.md, last, i + 1, r.net)

\* BumpVersion that counts every batch
BumpVersion_Always(md, net) == [md EXCEPT !.version = md.version + 1]

\* version += 1 when the batch produced net ops
BumpVersion(md, net) ==
    IF net # <<>> THEN [md EXCEPT !.version = md.version + 1] ELSE md

\* apply_edit_ops_to_level(level, raw_ops): the stores afterwards and the net ops
apply_edit_ops_to_level(diffs, level, raw_ops) ==
    IF raw_ops = <<>> THEN [diffs |-> diffs, net |-> <<>>]
    ELSE LET d1 == get_mapdiff(diffs, level)
             last == BuildLast(raw_ops, 1, <<>>)
             r == ApplyLast(d1[level], last, 1, <<>>)
         IN  IF last = <<>> THEN [diffs |-> d1, net |-> <<>>]
             ELSE [diffs |-> [d1 EXCEPT ![level] = BumpVersion(r.md, r.net)], net |-> r.net]

\* ------------------------------------------------------------------ portal geometry
\* An Optional result is the set of its values: {} for None, {v} for v.
\* _parse_key_xy(k): the (gx, gy) of a two-part key
_parse_key_xy(k) == IF Len(k) = 2 THEN {<<k[1], k[2]>>} ELSE {}

_is_border_cell(gx, gy, W, H) == gx = 0 \/ gy = 0 \/ gx = W - 1 \/ gy = H - 1

\* _opposite_wall_cell that stays on the near wall
_opposite_wall_cell_Near(gx, gy, W, H) ==
    IF _is_border_cell(gx, gy, W, H) THEN {<<gx, gy>>} ELSE {}

_opposite_wall_cell(gx, gy, W, H) ==
    IF gx = 0 THEN {<<W - 1, Max(0, Min(H - 1, gy))>>}
    ELSE IF gx = W - 1 THEN {<<0, Max(0, Min(H - 1, gy))>>}
    ELSE IF gy = 0 THEN {<<Max(0, Min(W - 1, gx)), H - 1>>}
    ELSE IF gy = H - 1 THEN {<<Max(0, Min(W - 1, gx)), 0>>}
    ELSE {}

\* _find_portal_span_height that keeps the lowest span instead of the highest
_find_portal_span_height_Lowest(diffs, level, gx, gy) ==
    IF level \notin DOMAIN diffs THEN {}
    ELSE LET ys == {k[3] : k \in {q \in DOMAIN diffs[level].adds :
                                     /\ diffs[level].adds[q] = PORTAL_SPAN
                                     /\ Len(q) = 3 /\ q[1] = gx /\ q[2] = gy}}
         IN  {y \in ys : \A z \in ys : y <= z}

\* _find_portal_span_height(level, gx, gy): the greatest y with a t==5 add at gx,gy,y
_find_portal_span_height(diffs, level, gx, gy) ==
    IF level \notin DOMAIN diffs THEN {}
    ELSE LET ys == {k[3] : k \in {q \in DOMAIN diffs[level].adds :
                                     /\ diffs[level].adds[q] = PORTAL_SPAN
                                     /\ Len(q) = 3 /\ q[1] = gx /\ q[2] = gy}}
         IN  {y \in ys : \A z \in ys : z <= y}

\* ------------------------------------------------------------------ state
\* the websockets of the model, in the iteration order of the set `connections`
ConnOrder == <<"c1", "c2", "c3">>
Conns == Range(ConnOrder)

VARIABLES
    sock,              \* transport of each websocket: "unborn", "open", "closed"
    h,                 \* handle_client of each websocket: where it is suspended
    connections,       \* connections
    ws_to_id,          \* ws_to_id
    ws_meta,           \* ws_meta: ws -> <<channel, level>>
    ws_map_version,    \* ws_map_version
    ws_tiles_version,  \* ws_tiles_version
    players,           \* players: id -> Player
    now,               \* the wall clock, now_ms()
    level_diffs,       \* level_diffs: level -> MapDiff
    level_tiles,       \* level_tiles: level -> TileDiff
    level_portals,     \* level_portals: level -> (key -> destination)
    level_items,       \* level_items: level -> list of MapItem
    wire,              \* the messages written to each websocket and not yet read by its client
    replica,           \* the map replica each client keeps from map_full and map_ops
    replay,            \* per level: the returned net ops of every batch, replayed from empty
    admin,             \* the administrative command in progress, and where it is suspended
    last               \* the message handled by the latest handler step, and what it did

dirs == <<connections, ws_to_id, ws_meta, ws_map_version, ws_tiles_version>>
stores == <<level_diffs, level_tiles, level_portals, level_items>>
vars == <<sock, h, connections, ws_to_id, ws_meta, ws_map_version, ws_tiles_version,
          players, now, level_diffs, level_tiles, level_portals, level_items,
          wire, replica, replay, admin, last>>

\* list(S) for a set of websockets
SeqOf(S) == SelectSeq(ConnOrder, LAMBDA w : w \in S)

Idle == [pc |-> "recv", cur |-> <<>>, todo |-> <<>>]

NoReplica == [synced |-> FALSE, adds |-> EmptyDict, removes |-> {}]

NoAdmin == [pc |-> "idle", cmd |-> "none", level |-> "none", targets |-> <<>>, msgs |-> <<>>]

NoLast == [type |-> "none", conn |-> "none", level |-> "none", arg |-> 0, applied |-> <<>>, sent |-> <<>>]

Init ==
    /\ sock = [c \in Conns |-> "unborn"]
    /\ h = [c \in Conns |-> [pc |-> "none", cur |-> <<>>, todo |-> <<>>]]
    /\ connections = {}
    /\ ws_to_id = EmptyDict
    /\ ws_meta = EmptyDict
    /\ ws_map_version = EmptyDict
    /\ ws_tiles_version = EmptyDict
    /\ players = EmptyDict
    /\ now = 0
    /\ admin = NoAdmin
    /\ level_diffs = EmptyDict
    /\ level_tiles = EmptyDict
    /\ level_portals = EmptyDict
    /\ level_items = EmptyDict
    /\ wire = [c \in Conns |-> <<>>]
    /\ replica = [c \in Conns |-> NoReplica]
    /\ replay = EmptyDict
    /\ last = NoLast

\* the MapDiff / TileDiff / portal mapping a reader of `level` sees (default when absent)
MD(level) == IF level \in DOMAIN level_diffs THEN level_diffs[level] ELSE NewMapDiff
TD(level) == IF level \in DOMAIN level_tiles THEN level_tiles[level] ELSE NewTileDiff
PortalsOf(portals, level) == IF level \in DOMAIN portals THEN portals[level] ELSE EmptyDict

\* ------------------------------------------------------------------ messages
\* sorted(S): the keys one after the other (the model fixes some order of the
\* keys; the adds come before the removes, as in the code)
RECURSIVE Sorted(_)
Sorted(S) == IF S = {} THEN <<>>
             ELSE LET x == CHOOSE y \in S : TRUE IN <<x>> \o Sorted(S \ {x})

AddOps(md, keys, tagged) ==
    [i \in 1..Len(keys) |-> [op |-> "add", key |-> keys[i], t |-> Tag(md.adds[keys[i]], tagged)]]

RemoveOps(keys) == [i \in 1..Len(keys) |-> [op |-> "remove", key |-> keys[i], t |-> NoT]]

FullOps(md, tagged) ==
    AddOps(md, Sorted(DOMAIN md.adds), tagged) \o RemoveOps(Sorted(md.removes))

MapFull(md, tagged) ==
    [type |-> "map_full", version |-> md.version, ops |-> FullOps(md, tagged), baseVersion |-> 0]

TilesFull(td) ==
    [type |-> "tiles_full", version |-> td.version,
     tiles |-> {[k |-> k, v |-> td.set[k]] : k \in DOMAIN td.set}]

PortalFull(portals, level) ==
    [type |-> "portal_full",
     portals |-> {[k |-> k, dest |-> PortalsOf(portals, level)[k]] : k \in DOMAIN PortalsOf(portals, level)}]

\* SendAll as a gather that gives up at the first send that raises: the sends
\* after it are not made
RECURSIVE SendAll_StopAtFailure(_, _, _, _, _)
SendAll_StopAtFailure(w, ts, i, msg, watch) ==
    IF i > Len(ts) THEN [wire |-> w, results |-> <<>>]
    ELSE IF sock[ts[i]] # "open"
    THEN [wire |-> w, results |-> [j \in 1..(Len(ts) - i + 1) |-> FALSE]]
    ELSE LET r == SendAll_StopAtFailure(IF msg.type \in watch THEN [w EXCEPT ![ts[i]] = Append(@, msg)] ELSE w,
                                        ts, i + 1, msg, watch)
         IN  [wire |-> r.wire, results |-> <<TRUE>> \o r.results]

\* ws.send(msg) on each websocket of `ts`, in order: a closed transport raises
\* (result FALSE), an open one queues the message, when its type is watched
RECURSIVE SendAll(_, _, _, _, _)
SendAll(w, ts, i, msg, watch) ==
    IF i > Len(ts) THEN [wire |-> w, results |-> <<>>]
    ELSE LET t == ts[i]
             ok == sock[t] = "open"
             w1 == IF ok /\ msg.type \in watch THEN [w EXCEPT ![t] = Append(@, msg)] ELSE w
             r == SendAll(w1, ts, i + 1, msg, watch)
         IN  [wire |-> r.wire, results |-> <<ok>> \o r.results]

\* the handler's own sends, in order
RECURSIVE SendSeq(_, _, _, _)
SendSeq(w, c, msgs, watch) ==
    IF msgs = <<>> THEN w
    ELSE SendSeq(IF Head(msgs).type \in watch THEN [w EXCEPT ![c] = Append(@, Head(msgs))] ELSE w,
                 c, Tail(msgs), watch)

QueueOk(w) == \A c \in Conns : Len(w[c]) <= MaxQueue

\* ------------------------------------------------------------------ fan-out
\* Targets with the level as the only filter of every broadcast
Targets_LevelOnly(b, conns, meta) ==
    SeqOf({w \in conns : w \in DOMAIN meta /\ meta[w][2] = b.level})

\* Targets with the filter of broadcast_filtered for every broadcast
Targets_ByScope(b, conns, meta) ==
    SeqOf({w \in conns : w \notin DOMAIN meta \/ meta[w] = <<b.channel, b.level>>})

\* the websockets a broadcast sends to, resolved from the directory as it is now
\* broadcast_filtered: no metadata yet, or the same channel and level
\* broadcast_map_ops/tile_ops/item_ops and the portal_ops fan-out: metadata with the level
Targets(b, conns, meta) ==
    IF b.kind = "update"
    THEN SeqOf({w \in conns : w \notin DOMAIN meta \/ meta[w] = <<b.channel, b.level>>})
    ELSE SeqOf({w \in conns : w \in DOMAIN meta /\ meta[w][2] = b.level})

\* a broadcast of the handler: kind, scope of its origin, payload
Bcast(kind, channel, level, version, ops) ==
    [kind |-> kind, channel |-> channel, level |-> level, version |-> version, ops |-> ops,
     targets |-> <<>>, results |-> <<>>, metaAt |-> EmptyDict, connsAt |-> {}]

PayloadOf(b) ==
    IF b.kind \in {"map_ops", "tile_ops"}
    THEN [type |-> b.kind, version |-> b.version, ops |-> b.ops]
    ELSE IF b.kind = "update" THEN b.ops
    ELSE [type |-> b.kind, ops |-> b.ops]

\* run the handler's remaining broadcasts up to the first gather that has sends to
\* await: a broadcast without ops returns at once, and so does a gather of nothing
\* portal_edit reads the version of its cross-level tile_ops when it reaches
\* `if cross_tile_sets:`; the entry "bind_tiles" of the handler's list marks that place
BindTiles(todo, tiles) ==
    [i \in 1..Len(todo) |->
        IF todo[i].kind = "tile_ops" THEN [todo[i] EXCEPT !.version = tiles[todo[i].level].version]
        ELSE todo[i]]

RECURSIVE Begin(_, _, _, _)
Begin(todo, conns, meta, tiles) ==
    IF todo = <<>> THEN Idle
    ELSE LET b == Head(todo)
             ts == Targets(b, conns, meta)
         IN  IF b.kind = "bind_tiles" THEN Begin(BindTiles(Tail(todo), tiles), conns, meta, tiles)
             ELSE IF (b.kind # "update" /\ b.ops = <<>>) \/ ts = <<>>
             THEN Begin(Tail(todo), conns, meta, tiles)
             ELSE [pc |-> "gather",
                   cur |-> <<[b EXCEPT !.targets = ts, !.metaAt = meta, !.connsAt = conns]>>,
                   todo |-> Tail(todo)]

\* the loop after the gather of broadcast_map_ops / broadcast_tile_ops: the results
\* are paired, by position, with the websockets that match the level now
Matching(b, conns, meta) == SeqOf({w \in conns : w \in DOMAIN meta /\ meta[w][2] = b.level})

Paired(b, conns, meta) == 1..Min(Len(Matching(b, conns, meta)), Len(b.results))

DeadOf(b, conns, meta) ==
    IF b.kind \in {"map_ops", "tile_ops"}
    THEN {Matching(b, conns, meta)[i] : i \in {j \in Paired(b, conns, meta) : ~b.results[j]}}
    ELSE IF b.kind = "update"
    THEN {b.targets[i] : i \in {j \in 1..Len(b.targets) : ~b.results[j]}}
    ELSE {}

AliveOf(b, conns, meta) ==
    IF b.kind \in {"map_ops", "tile_ops"}
    THEN {Matching(b, conns, meta)[i] : i \in {j \in Paired(b, conns, meta) : b.results[j]}}
    ELSE {}

Without(d, S) == [x \in (DOMAIN d) \ S |-> d[x]]

SetAll(d, S, v) == [x \in (DOMAIN d) \cup S |-> IF x \in S THEN v ELSE d[x]]

\* ------------------------------------------------------------------ presence
\* sweep that drops a player whose age has reached the TTL
sweep_AtTtl(ps, ts) == [pid \in {q \in DOMAIN ps : ~(ts - ps[q].last_seen >= TTL_MS)} |-> ps[pid]]

\* sweep(ts): the players that are kept
sweep(ps, ts) == [pid \in {q \in DOMAIN ps : ~(ts - ps[q].last_seen > TTL_MS)} |-> ps[pid]]

\* Player.to_snapshot_entry(ts)
to_snapshot_entry(pid, p, ts) ==
    [id |-> pid, x |-> p.x, y |-> p.y, z |-> p.z, state |-> p.state,
     ageMs |-> Max(0, ts - p.last_seen), channel |-> p.channel, level |-> p.level,
     frozen |-> p.frozen, rotation |-> p.rotation]

\* to_update_message that does not take the scope from the player
to_update_message_Unscoped(pid, p, ts) ==
    [type |-> "update", now |-> ts, id |-> pid, x |-> p.x, y |-> p.y, z |-> p.z,
     state |-> p.state, channel |-> "DEFAULT", level |-> "ROOT",
     frozen |-> p.frozen, rotation |-> p.rotation]

\* Player.to_update_message(ts)
to_update_message(pid, p, ts) ==
    [type |-> "update", now |-> ts, id |-> pid, x |-> p.x, y |-> p.y, z |-> p.z,
     state |-> p.state, channel |-> p.channel, level |-> p.level,
     frozen |-> p.frozen, rotation |-> p.rotation]

Snapshot(ps, ts, keep(_, _)) ==
    [type |-> "snapshot", now |-> ts, ttlMs |-> TTL_MS,
     players |-> {to_snapshot_entry(pid, ps[pid], ts) : pid \in {q \in DOMAIN ps : keep(q, ps[q])}}]

ItemsFull(items, level) ==
    [type |-> "items_full", items |-> IF level \in DOMAIN items THEN items[level] ELSE <<>>]

\* ------------------------------------------------------------------ names
\* the level names that match LEVEL_NAME_RE, among the names of the model
WellFormedLevels == {"ROOT", "LEVELB", "LEVELX"}
\* DefaultLevel that takes every name as it comes
DefaultLevel_AsGiven(raw) == raw

\* data.get("level") or "ROOT", then the fallback of hello and level_change
DefaultLevel(raw) == IF raw \in WellFormedLevels THEN raw ELSE "ROOT"
\* a channel name: a non-empty string of at most 32 characters
CHANNEL_MAX_LEN == 32
ValidChannel(raw) == Len(raw) > 0 /\ Len(raw) <= CHANNEL_MAX_LEN
\* data.get("channel") or "DEFAULT", then the fallback of hello
DefaultChannel(raw) == IF ValidChannel(raw) THEN raw ELSE "DEFAULT"
\* isinstance(pid, str) and len(pid) >= 8; a missing id is the empty string
ID_MIN_LEN == 8
ValidId(pid) == Len(pid) >= ID_MIN_LEN
ALLOWED_STATES == {"good", "ball"}

\* a JSON value read as a number: a number, a key that is missing, null, or a
\* string that float() rejects
Num(n) == [k |-> "num", n |-> n]
Missing == [k |-> "missing", n |-> 0]
Null == [k |-> "null", n |-> 0]
Text == [k |-> "text", n |-> 0]
\* the literals NaN, Infinity and -Infinity, which json.loads reads as floats
NaN == [k |-> "nan", n |-> 0]

\* float(v) succeeds
Floatable(v) == v.k \in {"num", "nan"}

\* the float nan (the numbers of the model are integers of -1 and above)
NotANumber == -2

\* float(v)
Float(v) == IF v.k = "nan" THEN NotANumber ELSE v.n

\* float(v) % 360.0: nan for nan and the infinities
Mod360(v) == IF v.k = "nan" THEN NotANumber ELSE v.n % 360

\* rotation of a player that is no ball (None)
NoRotation == -1

\* validate_update that asks no rotation of a ball
ValidateUpdate_NoRotationCheck(data) ==
    LET channel == IF data.channel = "" THEN "DEFAULT" ELSE data.channel
        level == IF data.level = "" THEN "ROOT" ELSE data.level
        z == IF data.pos.z.k = "missing" THEN Num(0) ELSE data.pos.z
        v == [id |-> data.id, x |-> Float(data.pos.x), y |-> Float(data.pos.y), z |-> Float(z),
              state |-> data.state,
              rotation |-> IF data.state = "ball" /\ Floatable(data.rotation)
                           THEN Mod360(data.rotation) ELSE NoRotation,
              frozen |-> data.frozen, channel |-> channel, level |-> level]
    IN  IF ~ValidId(data.id) THEN [err |-> "invalid_id", v |-> v]
        ELSE IF ~ValidChannel(channel) THEN [err |-> "invalid_channel", v |-> v]
        ELSE IF level \notin WellFormedLevels THEN [err |-> "invalid_level", v |-> v]
        ELSE IF ~Floatable(data.pos.x) \/ ~Floatable(data.pos.y) \/ ~Floatable(z)
        THEN [err |-> "invalid_pos", v |-> v]
        ELSE IF data.state \notin ALLOWED_STATES THEN [err |-> "invalid_state", v |-> v]
        ELSE [err |-> "", v |-> v]

\* validate_update(data): the reason of the ValueError, or "" and the result
validate_update(data) ==
    LET channel == IF data.channel = "" THEN "DEFAULT" ELSE data.channel
        level == IF data.level = "" THEN "ROOT" ELSE data.level
        z == IF data.pos.z.k = "missing" THEN Num(0) ELSE data.pos.z
        v == [id |-> data.id, x |-> Float(data.pos.x), y |-> Float(data.pos.y), z |-> Float(z),
              state |-> data.state,
              rotation |-> IF data.state = "ball" THEN Mod360(data.rotation) ELSE NoRotation,
              frozen |-> data.frozen, channel |-> channel, level |-> level]
    IN  IF ~ValidId(data.id) THEN [err |-> "invalid_id", v |-> v]
        ELSE IF ~ValidChannel(channel) THEN [err |-> "invalid_channel", v |-> v]
        ELSE IF level \notin WellFormedLevels THEN [err |-> "invalid_level", v |-> v]
        ELSE IF ~Floatable(data.pos.x) \/ ~Floatable(data.pos.y) \/ ~Floatable(z)
        THEN [err |-> "invalid_pos", v |-> v]
        ELSE IF data.state \notin ALLOWED_STATES THEN [err |-> "invalid_state", v |-> v]
        ELSE IF data.state = "ball" /\ ~Floatable(data.rotation)
        THEN [err |-> "rotation_required", v |-> v]
        ELSE [err |-> "", v |-> v]

\* ------------------------------------------------------------------ the client
\* what a client does with a message: rebuild from empty on map_full, apply map_ops
RECURSIVE ClientApply(_, _, _)
ClientApply(r, ops, i) ==
    IF i > Len(ops) THEN r
    ELSE LET o == ops[i]
         IN  ClientApply(
                 IF o.op = "add"
                 THEN [r EXCEPT !.adds = Put(r.adds, o.key, IF o.t = NoT THEN NORMAL ELSE o.t),
                                !.removes = r.removes \ {o.key}]
                 ELSE [r EXCEPT !.adds = Pop(r.adds, o.key), !.removes = r.removes \cup {o.key}],
                 ops, i + 1)

ClientReceive(r, m) ==
    IF m.type = "map_full"
    THEN ClientApply([synced |-> TRUE, adds |-> EmptyDict, removes |-> {}], m.ops, 1)
    ELSE IF m.type = "map_ops" THEN ClientApply(r, m.ops, 1)
    ELSE r

\* the returned net ops of the apply calls of one message, replayed per level as a
\* client replays ops
RECURSIVE Replay(_, _, _)
Replay(rp, applied, i) ==
    IF i > Len(applied) THEN rp
    ELSE LET a == applied[i]
             r0 == IF a.level \in DOMAIN rp THEN rp[a.level] ELSE NoReplica
         IN  IF a.store # "map" \/ a.net = <<>> THEN Replay(rp, applied, i + 1)
             ELSE Replay(Put(rp, a.level, ClientApply(r0, a.net, 1)), applied, i + 1)

\* ------------------------------------------------------------------ handler steps
Ready(c) == h[c].pc = "recv" /\ sock[c] = "open"

Did(type, c, level, applied, sent) ==
    [type |-> type, conn |-> c, level |-> level, arg |-> 0, applied |-> applied, sent |-> sent]

\* a websocket is accepted: handle_client starts and registers it
Connect(c) ==
    /\ sock[c] = "unborn"
    /\ sock' = [sock EXCEPT ![c] = "open"]
    /\ h' = [h EXCEPT ![c] = Idle]
    /\ connections' = connections \cup {c}
    /\ last' = Did("connect", c, "none", <<>>, <<>>)
    /\ UNCHANGED <<ws_to_id, ws_meta, ws_map_version, ws_tiles_version, players, now, admin,
                   stores, wire, replica, replay>>

\* typ == "hello" with a valid id; channel and level are "" when missing
Hello(c, pid, channel, level, watch) ==
    LET ch == DefaultChannel(channel)
        lv == DefaultLevel(level)
        diffs == get_mapdiff(level_diffs, lv)
        tiles == get_tilediff(level_tiles, lv)
        ps == sweep(players, now)
        snap == Snapshot(ps, now, LAMBDA oid, p : oid # pid /\ p.channel = ch /\ p.level = lv)
        msgs == <<snap, MapFull(diffs[lv], TaggedTypes), TilesFull(tiles[lv]),
                  PortalFull(level_portals, lv), ItemsFull(level_items, lv)>>
    IN  /\ Ready(c)
        /\ ValidId(pid)
        /\ ws_to_id' = Put(ws_to_id, c, pid)
        /\ ws_meta' = Put(ws_meta, c, <<ch, lv>>)
        /\ level_diffs' = diffs
        /\ ws_map_version' = Put(ws_map_version, c, diffs[lv].version)
        /\ level_tiles' = tiles
        /\ ws_tiles_version' = Put(ws_tiles_version, c, tiles[lv].version)
        /\ players' = ps
        /\ wire' = SendSeq(wire, c, msgs, watch)
        /\ QueueOk(wire')
        /\ last' = [Did("hello", c, lv, <<>>, msgs) EXCEPT !.arg = <<pid, channel, level>>]
        /\ UNCHANGED <<sock, h, connections, now, admin, level_portals, level_items, replica, replay>>

\* typ == "level_change"
LevelChange(c, level, watch) ==
    LET new_level == DefaultLevel(level)
        cur_channel == IF c \in DOMAIN ws_meta THEN ws_meta[c][1] ELSE "DEFAULT"
        diffs == get_mapdiff(level_diffs, new_level)
        tiles == get_tilediff(level_tiles, new_level)
        ps == sweep(players, now)
        snap == Snapshot(ps, now, LAMBDA oid, p :
                    /\ p.channel = cur_channel /\ p.level = new_level
                    /\ ~(c \in DOMAIN ws_to_id /\ ws_to_id[c] = oid))
        msgs == <<MapFull(diffs[new_level], TaggedTypesNoLock), TilesFull(tiles[new_level]),
                  PortalFull(level_portals, new_level), ItemsFull(level_items, new_level), snap>>
    IN  /\ Ready(c)
        /\ ws_meta' = Put(ws_meta, c, <<cur_channel, new_level>>)
        /\ level_diffs' = diffs
        /\ ws_map_version' = Put(ws_map_version, c, diffs[new_level].version)
        /\ level_tiles' = tiles
        /\ ws_tiles_version' = Put(ws_tiles_version, c, tiles[new_level].version)
        /\ players' = ps
        /\ wire' = SendSeq(wire, c, msgs, watch)
        /\ QueueOk(wire')
        /\ last' = Did("level_change", c, new_level, <<>>, msgs)
        /\ UNCHANGED <<sock, h, connections, ws_to_id, now, admin, level_portals, level_items, replica, replay>>

\* `if have != md.version`, where only a websocket that is behind would be answered
SyncNeeded_Behind(have, version) == have < version

\* `if have != md.version` / `if have != td.version`
SyncNeeded(have, version) == have # version

\* typ == "map_sync": `have` is int(have), or -1 when it is no integer
MapSync(c, have, watch) ==
    LET meta == c \in DOMAIN ws_meta
        lvl == IF meta THEN ws_meta[c][2] ELSE "none"
        diffs == IF meta THEN get_mapdiff(level_diffs, lvl) ELSE level_diffs
        msgs == IF meta /\ SyncNeeded(have, diffs[lvl].version)
                THEN <<MapFull(diffs[lvl], TaggedTypesNoLock)>> ELSE <<>>
    IN  /\ Ready(c)
        /\ level_diffs' = diffs
        /\ ws_map_version' = IF msgs # <<>> THEN Put(ws_map_version, c, diffs[lvl].version)
                             ELSE ws_map_version
        /\ wire' = SendSeq(wire, c, msgs, watch)
        /\ QueueOk(wire')
        /\ last' = [Did("map_sync", c, lvl, <<>>, msgs) EXCEPT !.arg = have]
        /\ UNCHANGED <<sock, h, connections, ws_to_id, ws_meta, ws_tiles_version, players, now, admin,
                       level_tiles, level_portals, level_items, replica, replay>>

\* typ == "tiles_sync"
TilesSync(c, have, watch) ==
    LET meta == c \in DOMAIN ws_meta
        lvl == IF meta THEN ws_meta[c][2] ELSE "none"
        tiles == IF meta THEN get_tilediff(level_tiles, lvl) ELSE level_tiles
        msgs == IF meta /\ SyncNeeded(have, tiles[lvl].version)
                THEN <<TilesFull(tiles[lvl])>> ELSE <<>>
    IN  /\ Ready(c)
        /\ level_tiles' = tiles
        /\ ws_tiles_version' = IF msgs # <<>> THEN Put(ws_tiles_version, c, tiles[lvl].version)
                               ELSE ws_tiles_version
        /\ wire' = SendSeq(wire, c, msgs, watch)
        /\ QueueOk(wire')
        /\ last' = [Did("tiles_sync", c, lvl, <<>>, msgs) EXCEPT !.arg = have]
        /\ UNCHANGED <<sock, h, connections, ws_to_id, ws_meta, ws_map_version, players, now, admin,
                       level_diffs, level_portals, level_items, replica, replay>>

\* the client reads the next message of its websocket
Receive(c) ==
    /\ wire[c] # <<>>
    /\ wire' = [wire EXCEPT ![c] = Tail(@)]
    /\ replica' = [replica EXCEPT ![c] = ClientReceive(@, Head(wire[c]))]
    /\ UNCHANGED <<sock, h, dirs, players, now, admin, stores, replay, last>>

\* ------------------------------------------------------------------ map_edit
\* the loop over net_ops that mirrors portal spans into the destination level:
\* the stores afterwards, cross_map_ops2, and every apply call made (level, net ops)
RECURSIVE MirrorLoop(_, _, _, _, _, _, _)
MirrorLoop(diffs, portals, lvl, net, i, cross, applied) ==
    IF i > Len(net) THEN [diffs |-> diffs, cross |-> cross, applied |-> applied]
    ELSE LET op == net[i]
             k == op.key
             srcKey == <<k[1], k[2]>>
             hasDest == srcKey \in DOMAIN PortalsOf(portals, lvl) /\ PortalsOf(portals, lvl)[srcKey] # ""
             dest == PortalsOf(portals, lvl)[srcKey]
             opp == _opposite_wall_cell(k[1], k[2], MAP_W_DEFAULT, MAP_H_DEFAULT)
             mirrored == /\ Len(k) = 3
                         /\ _is_border_cell(k[1], k[2], MAP_W_DEFAULT, MAP_H_DEFAULT)
                         /\ hasDest
                         /\ opp # {}
                         /\ (op.op = "add" => op.t = PORTAL_SPAN)
             d == CHOOSE x \in opp : TRUE
             dest_key == <<d[1], d[2], k[3]>>
             mop == IF op.op = "add" THEN [op |-> "add", key |-> dest_key, t |-> PORTAL_SPAN]
                    ELSE [op |-> "remove", key |-> dest_key, t |-> NoT]
             r == apply_edit_ops_to_level(diffs, dest, <<mop>>)
         IN  IF ~mirrored THEN MirrorLoop(diffs, portals, lvl, net, i + 1, cross, applied)
             ELSE MirrorLoop(r.diffs, portals, lvl, net, i + 1,
                      IF r.net # <<>>
                      THEN Append(cross, [level |-> dest, ops |-> r.net, version |-> r.diffs[dest].version])
                      ELSE cross,
                      Append(applied, [store |-> "map", level |-> dest, net |-> r.net]))

IndexOfLevel(acc, lev) ==
    IF \E i \in 1..Len(acc) : acc[i].level = lev
    THEN CHOOSE i \in 1..Len(acc) : acc[i].level = lev
    ELSE 0

\* by_level / per_level_map: one entry per level, in the order of first occurrence,
\* with the latest version and the ops concatenated
RECURSIVE GroupByLevel(_, _, _)
GroupByLevel(cross, i, acc) ==
    IF i > Len(cross) THEN acc
    ELSE LET e == cross[i]
             j == IndexOfLevel(acc, e.level)
         IN  IF j = 0 THEN GroupByLevel(cross, i + 1, Append(acc, e))
             ELSE GroupByLevel(cross, i + 1,
                      [acc EXCEPT ![j] = [level |-> e.level, ops |-> acc[j].ops \o e.ops,
                                          version |-> e.version]])

BcastsOf(kind, channel, grouped) ==
    [i \in 1..Len(grouped) |-> Bcast(kind, channel, grouped[i].level, grouped[i].version, grouped[i].ops)]

\* typ == "map_edit" from an identified websocket
MapEdit(c, ops_raw) ==
    LET ops_in == Truncate(ops_raw, MAX_OPS_PER_BATCH)
        channel == ws_meta[c][1]
        lvl == ws_meta[c][2]
        r == apply_edit_ops_to_level(level_diffs, lvl, ops_in)
        d1 == get_mapdiff(r.diffs, lvl)
        new_ver == d1[lvl].version
        m == MirrorLoop(d1, level_portals, lvl, r.net, 1, <<>>, <<[store |-> "map", level |-> lvl, net |-> r.net]>>)
        todo == IF r.net = <<>> THEN <<>>
                ELSE <<Bcast("map_ops", channel, lvl, new_ver, r.net)>>
                         \o BcastsOf("map_ops", channel, GroupByLevel(m.cross, 1, <<>>))
    IN  /\ Ready(c)
        /\ c \in DOMAIN ws_meta
        /\ level_diffs' = m.diffs
        /\ \A l \in DOMAIN level_diffs' : level_diffs'[l].version <= MaxVersion
        /\ h' = [h EXCEPT ![c] = Begin(todo, connections, ws_meta, level_tiles)]
        /\ last' = Did("map_edit", c, lvl, m.applied, <<>>)
        /\ replay' = Replay(replay, m.applied, 1)
        /\ UNCHANGED <<sock, dirs, players, now, admin, level_tiles, level_portals, level_items,
                       wire, replica>>

\* ------------------------------------------------------------------ tile_edit
ValidTileEntry(e) == e.op = "set" /\ KeyLen(e.k) > 0 /\ KeyLen(e.k) <= KEY_MAX_LEN

IndexOfK(lastT, k) ==
    IF \E i \in 1..Len(lastT) : lastT[i].k = k
    THEN CHOOSE i \in 1..Len(lastT) : lastT[i].k = k
    ELSE 0

BuildLastTilesOne(lastT, e) ==
    LET j == IndexOfK(lastT, e.k)
        ent == [k |-> e.k, v |-> e.v]
    IN  IF ~ValidTileEntry(e) THEN lastT
        ELSE IF j = 0 THEN Append(lastT, ent)
        ELSE [lastT EXCEPT ![j] = ent]

RECURSIVE BuildLastTilesRange(_, _, _, _)
BuildLastTilesRange(ops, lo, hi, lastT) ==
    IF lo > hi THEN lastT
    ELSE IF lo = hi THEN BuildLastTilesOne(lastT, ops[lo])
    ELSE LET half == BuildLastTilesRange(ops, lo, (lo + hi) \div 2, lastT)
         IN  IF half = lastT THEN BuildLastTilesRange(ops, (lo + hi) \div 2 + 1, hi, lastT)
             ELSE BuildLastTilesRange(ops, (lo + hi) \div 2 + 1, hi, half)

BuildLastTiles(ops, i, lastT) == BuildLastTilesRange(ops, i, Len(ops), lastT)

RECURSIVE ApplyTiles(_, _, _, _)
ApplyTiles(td, lastT, i, valid) ==
    IF i > Len(lastT) THEN [td |-> td, valid |-> valid]
    ELSE LET e == lastT[i]
         IN  IF e.k \in DOMAIN td.set /\ td.set[e.k] = e.v
             THEN ApplyTiles(td, lastT, i + 1, valid)
             ELSE ApplyTiles([td EXCEPT !.set = Put(td.set, e.k, e.v)], lastT, i + 1,
                             Append(valid, [op |-> "set", k |-> e.k, v |-> e.v]))

\* BumpTiles that counts every batch
BumpTiles_Always(td, valid) == [td EXCEPT !.version = td.version + 1]

\* if valid: td.version += 1
BumpTiles(td, valid) ==
    IF valid # <<>> THEN [td EXCEPT !.version = td.version + 1] ELSE td

\* typ == "tile_edit" from an identified websocket
TileEdit(c, ops_raw) ==
    LET channel == ws_meta[c][1]
        lvl == ws_meta[c][2]
        t1 == get_tilediff(level_tiles, lvl)
        r == ApplyTiles(t1[lvl], BuildLastTiles(Truncate(ops_raw, MAX_OPS_PER_BATCH), 1, <<>>), 1, <<>>)
        td == BumpTiles(r.td, r.valid)
        todo == IF r.valid # <<>> THEN <<Bcast("tile_ops", channel, lvl, td.version, r.valid)>> ELSE <<>>
    IN  /\ Ready(c)
        /\ c \in DOMAIN ws_meta
        /\ level_tiles' = [t1 EXCEPT ![lvl] = td]
        /\ td.version <= MaxVersion
        /\ h' = [h EXCEPT ![c] = Begin(todo, connections, ws_meta, level_tiles')]
        /\ last' = Did("tile_edit", c, lvl, <<[store |-> "tile", level |-> lvl, net |-> r.valid]>>, <<>>)
        /\ UNCHANGED <<sock, dirs, players, now, admin, level_diffs, level_portals, level_items,
                       wire, replica, replay>>

\* ------------------------------------------------------------------ portal_edit
ValidPortalEntry(e) ==
    /\ e.op \in {"set", "remove"}
    /\ KeyLen(e.k) > 0
    /\ KeyLen(e.k) <= KEY_MAX_LEN

\* PortalMirror that goes on from the return portal: the source level gets a
\* portal at the opposite cell too
PortalMirror_Chained(st, lvl, gx, gy, dest) ==
    LET d == CHOOSE x \in _opposite_wall_cell(gx, gy, MAP_W_DEFAULT, MAP_H_DEFAULT) : TRUE
        dk == <<d[1], d[2]>>
        p1 == IF dest \in DOMAIN st.portals THEN st.portals ELSE Put(st.portals, dest, EmptyDict)
        back == dk \in DOMAIN p1[dest] /\ p1[dest][dk] = lvl
        p2 == [(IF back THEN p1 ELSE [p1 EXCEPT ![dest] = Put(p1[dest], dk, lvl)])
                  EXCEPT ![lvl] = Put(@, dk, dest)]
        cportal == IF back THEN st.cportal
                   ELSE Append(st.cportal, [level |-> dest, version |-> 0,
                                            ops |-> <<[op |-> "set", k |-> dk, dest |-> lvl]>>])
        src_y == _find_portal_span_height(st.diffs, lvl, gx, gy)
        y == CHOOSE v \in src_y : TRUE
        r == apply_edit_ops_to_level(st.diffs, dest,
                 <<[op |-> "add", key |-> <<d[1], d[2], y>>, t |-> PORTAL_SPAN]>>)
        t1 == get_tilediff(st.tiles, dest)
        hasTile == dk \in DOMAIN t1[dest].set /\ t1[dest].set[dk] = TILE_LEVELCHANGE
        tset == [op |-> "set", k |-> dk, v |-> TILE_LEVELCHANGE]
    IN  IF src_y # {}
        THEN [st EXCEPT !.portals = p2, !.cportal = cportal, !.diffs = r.diffs,
                        !.cmap = IF r.net # <<>>
                                 THEN Append(st.cmap, [level |-> dest, ops |-> r.net,
                                                       version |-> r.diffs[dest].version])
                                 ELSE st.cmap,
                        !.applied = Append(st.applied, [store |-> "map", level |-> dest, net |-> r.net])]
        ELSE IF hasTile
        THEN [st EXCEPT !.portals = p2, !.cportal = cportal, !.tiles = t1]
        ELSE [st EXCEPT !.portals = p2, !.cportal = cportal,
                        !.tiles = [t1 EXCEPT ![dest] = [version |-> t1[dest].version + 1,
                                                        set |-> Put(t1[dest].set, dk, TILE_LEVELCHANGE)]],
                        !.ctiles = Append(st.ctiles, [level |-> dest, version |-> 0, ops |-> <<tset>>]),
                        !.applied = Append(st.applied, [store |-> "tile", level |-> dest, net |-> <<tset>>])]

\* PortalMirror that leaves a mapping of the opposite cell to another level alone
PortalMirror_KeepOther(st, lvl, gx, gy, dest) ==
    LET d == CHOOSE x \in _opposite_wall_cell(gx, gy, MAP_W_DEFAULT, MAP_H_DEFAULT) : TRUE
        dk == <<d[1], d[2]>>
        p1 == IF dest \in DOMAIN st.portals THEN st.portals ELSE Put(st.portals, dest, EmptyDict)
        back == dk \in DOMAIN p1[dest]
        p2 == IF back THEN p1 ELSE [p1 EXCEPT ![dest] = Put(p1[dest], dk, lvl)]
        cportal == IF back THEN st.cportal
                   ELSE Append(st.cportal, [level |-> dest, version |-> 0,
                                            ops |-> <<[op |-> "set", k |-> dk, dest |-> lvl]>>])
        src_y == _find_portal_span_height(st.diffs, lvl, gx, gy)
        y == CHOOSE v \in src_y : TRUE
        r == apply_edit_ops_to_level(st.diffs, dest,
                 <<[op |-> "add", key |-> <<d[1], d[2], y>>, t |-> PORTAL_SPAN]>>)
        t1 == get_tilediff(st.tiles, dest)
        hasTile == dk \in DOMAIN t1[dest].set /\ t1[dest].set[dk] = TILE_LEVELCHANGE
        tset == [op |-> "set", k |-> dk, v |-> TILE_LEVELCHANGE]
    IN  IF src_y # {}
        THEN [st EXCEPT !.portals = p2, !.cportal = cportal, !.diffs = r.diffs,
                        !.cmap = IF r.net # <<>>
                                 THEN Append(st.cmap, [level |-> dest, ops |-> r.net,
                                                       version |-> r.diffs[dest].version])
                                 ELSE st.cmap,
                        !.applied = Append(st.applied, [store |-> "map", level |-> dest, net |-> r.net])]
        ELSE IF hasTile
        THEN [st EXCEPT !.portals = p2, !.cportal = cportal, !.tiles = t1]
        ELSE [st EXCEPT !.portals = p2, !.cportal = cportal,
                        !.tiles = [t1 EXCEPT ![dest] = [version |-> t1[dest].version + 1,
                                                        set |-> Put(t1[dest].set, dk, TILE_LEVELCHANGE)]],
                        !.ctiles = Append(st.ctiles, [level |-> dest, version |-> 0, ops |-> <<tset>>]),
                        !.applied = Append(st.applied, [store |-> "tile", level |-> dest, net |-> <<tset>>])]

\* the body of `if prev != dest:` for a border cell: return portal and mirrored form
PortalMirror(st, lvl, gx, gy, dest) ==
    LET d == CHOOSE x \in _opposite_wall_cell(gx, gy, MAP_W_DEFAULT, MAP_H_DEFAULT) : TRUE
        dk == <<d[1], d[2]>>
        p1 == IF dest \in DOMAIN st.portals THEN st.portals ELSE Put(st.portals, dest, EmptyDict)
        back == dk \in DOMAIN p1[dest] /\ p1[dest][dk] = lvl
        p2 == IF back THEN p1 ELSE [p1 EXCEPT ![dest] = Put(p1[dest], dk, lvl)]
        cportal == IF back THEN st.cportal
                   ELSE Append(st.cportal, [level |-> dest, version |-> 0,
                                            ops |-> <<[op |-> "set", k |-> dk, dest |-> lvl]>>])
        src_y == _find_portal_span_height(st.diffs, lvl, gx, gy)
        y == CHOOSE v \in src_y : TRUE
        r == apply_edit_ops_to_level(st.diffs, dest,
                 <<[op |-> "add", key |-> <<d[1], d[2], y>>, t |-> PORTAL_SPAN]>>)
        t1 == get_tilediff(st.tiles, dest)
        hasTile == dk \in DOMAIN t1[dest].set /\ t1[dest].set[dk] = TILE_LEVELCHANGE
        tset == [op |-> "set", k |-> dk, v |-> TILE_LEVELCHANGE]
    IN  IF src_y # {}
        THEN [st EXCEPT !.portals = p2, !.cportal = cportal, !.diffs = r.diffs,
                        !.cmap = IF r.net # <<>>
                                 THEN Append(st.cmap, [level |-> dest, ops |-> r.net,
                                                       version |-> r.diffs[dest].version])
                                 ELSE st.cmap,
                        !.applied = Append(st.applied, [store |-> "map", level |-> dest, net |-> r.net])]
        ELSE IF hasTile
        THEN [st EXCEPT !.portals = p2, !.cportal = cportal, !.tiles = t1]
        ELSE [st EXCEPT !.portals = p2, !.cportal = cportal,
                        !.tiles = [t1 EXCEPT ![dest] = [version |-> t1[dest].version + 1,
                                                        set |-> Put(t1[dest].set, dk, TILE_LEVELCHANGE)]],
                        !.ctiles = Append(st.ctiles, [level |-> dest, version |-> 0, ops |-> <<tset>>]),
                        !.applied = Append(st.applied, [store |-> "tile", level |-> dest, net |-> <<tset>>])]

\* RemoveForward that also takes the return portal out of the destination level
RemoveForward_WithReturn(portals, lvl, k) ==
    LET dest == portals[lvl][k]
        p1 == [portals EXCEPT ![lvl] = Pop(portals[lvl], k)]
        opp == IF Len(k) = 2 THEN _opposite_wall_cell(k[1], k[2], MAP_W_DEFAULT, MAP_H_DEFAULT) ELSE {}
    IN  IF dest \in DOMAIN p1 /\ opp # {}
        THEN [p1 EXCEPT ![dest] = Pop(p1[dest], CHOOSE x \in opp : TRUE)]
        ELSE p1

\* store.pop(k, None) of the remove branch
RemoveForward(portals, lvl, k) == [portals EXCEPT ![lvl] = Pop(portals[lvl], k)]

\* the dest of a set op: a non-empty string of at most 64 characters
ValidDest(dest) == Len(dest) > 0 /\ Len(dest) <= DEST_MAX_LEN

\* PortalOne without the test `if prev != dest`
PortalOne_SetAgain(st, lvl, e) ==
    LET store == st.portals[lvl]
        xy == _parse_key_xy(e.k)
        g == CHOOSE x \in xy : TRUE
        st1 == [st EXCEPT !.portals = [st.portals EXCEPT ![lvl] = Put(store, e.k, e.dest)],
                          !.valid = Append(st.valid, [op |-> "set", k |-> e.k, dest |-> e.dest])]
    IN  IF ~ValidPortalEntry(e) THEN st
        ELSE IF e.op = "set"
        THEN IF ~ValidDest(e.dest) THEN st
             ELSE IF xy # {} /\ _is_border_cell(g[1], g[2], MAP_W_DEFAULT, MAP_H_DEFAULT)
             THEN PortalMirror(st1, lvl, g[1], g[2], e.dest)
             ELSE st1
        ELSE IF e.k \in DOMAIN store
        THEN [st EXCEPT !.portals = RemoveForward(st.portals, lvl, e.k),
                        !.valid = Append(st.valid, [op |-> "remove", k |-> e.k, dest |-> ""])]
        ELSE st

\* one entry of the batch
PortalOne(st, lvl, e) ==
    LET store == st.portals[lvl]
        xy == _parse_key_xy(e.k)
        g == CHOOSE x \in xy : TRUE
        st1 == [st EXCEPT !.portals = [st.portals EXCEPT ![lvl] = Put(store, e.k, e.dest)],
                          !.valid = Append(st.valid, [op |-> "set", k |-> e.k, dest |-> e.dest])]
    IN  IF ~ValidPortalEntry(e) THEN st
        ELSE IF e.op = "set"
        THEN IF ~ValidDest(e.dest) \/ (e.k \in DOMAIN store /\ store[e.k] = e.dest) THEN st
             ELSE IF xy # {} /\ _is_border_cell(g[1], g[2], MAP_W_DEFAULT, MAP_H_DEFAULT)
             THEN PortalMirror(st1, lvl, g[1], g[2], e.dest)
             ELSE st1
        ELSE IF e.k \in DOMAIN store
        THEN [st EXCEPT !.portals = RemoveForward(st.portals, lvl, e.k),
                        !.valid = Append(st.valid, [op |-> "remove", k |-> e.k, dest |-> ""])]
        ELSE st

RECURSIVE PortalRange(_, _, _, _, _)
PortalRange(st, lvl, ops, lo, hi) ==
    IF lo > hi THEN st
    ELSE IF lo = hi THEN PortalOne(st, lvl, ops[lo])
    ELSE LET half == PortalRange(st, lvl, ops, lo, (lo + hi) \div 2)
         IN  IF half = st THEN PortalRange(st, lvl, ops, (lo + hi) \div 2 + 1, hi)
             ELSE PortalRange(half, lvl, ops, (lo + hi) \div 2 + 1, hi)

PortalLoop(st, lvl, ops, i) == PortalRange(st, lvl, ops, i, Len(ops))

\* typ == "portal_edit" from an identified websocket
PortalEdit(c, ops_raw) ==
    LET channel == ws_meta[c][1]
        lvl == ws_meta[c][2]
        st0 == [portals |-> IF lvl \in DOMAIN level_portals THEN level_portals
                            ELSE Put(level_portals, lvl, EmptyDict),
                diffs |-> level_diffs, tiles |-> level_tiles, valid |-> <<>>,
                cportal |-> <<>>, cmap |-> <<>>, ctiles |-> <<>>, applied |-> <<>>]
        st == PortalLoop(st0, lvl, Truncate(ops_raw, MAX_OPS_PER_BATCH), 1)
        todo == <<Bcast("portal_ops", channel, lvl, 0, st.valid)>>
                    \o BcastsOf("portal_ops", channel, GroupByLevel(st.cportal, 1, <<>>))
                    \o BcastsOf("map_ops", channel, GroupByLevel(st.cmap, 1, <<>>))
                    \o <<Bcast("bind_tiles", channel, lvl, 0, <<>>)>>
                    \o BcastsOf("tile_ops", channel, GroupByLevel(st.ctiles, 1, <<>>))
    IN  /\ Ready(c)
        /\ c \in DOMAIN ws_meta
        /\ level_portals' = st.portals
        /\ level_diffs' = st.diffs
        /\ level_tiles' = st.tiles
        /\ \A l \in DOMAIN level_diffs' : level_diffs'[l].version <= MaxVersion
        /\ \A l \in DOMAIN level_tiles' : level_tiles'[l].version <= MaxVersion
        /\ h' = [h EXCEPT ![c] = Begin(todo, connections, ws_meta, level_tiles')]
        /\ last' = [Did("portal_edit", c, lvl, st.applied, <<>>) EXCEPT !.arg = st.valid]
        /\ replay' = Replay(replay, st.applied, 1)
        /\ UNCHANGED <<sock, dirs, players, now, admin, level_items, wire, replica>>

\* ------------------------------------------------------------------ item_edit
\* heights are in hundredths: float(entry.get('y') or 0.75)
DEFAULT_ITEM_Y == 75
ITEM_COORD_MAX == 8192

ItemY(raw) == IF raw = 0 THEN DEFAULT_ITEM_Y ELSE raw

\* SameItemForAdd that never matches a stored marker (kind 1)
SameItemForAdd_PayloadOnly(it, gx, gy, kind, payload) ==
    it.gx = gx /\ it.gy = gy /\ it.kind = kind /\ kind = 0 /\ it.payload = payload

\* the signature test of the add loop / of the remove loop
SameItemForAdd(it, gx, gy, kind, payload) ==
    it.gx = gx /\ it.gy = gy /\ it.kind = kind /\ ((kind = 0 /\ it.payload = payload) \/ kind = 1)

\* SameItemForRemove that takes every item of the cell, whatever its kind
SameItemForRemove_AnyKind(it, gx, gy, kind, payload) == it.gx = gx /\ it.gy = gy

SameItemForRemove(it, gx, gy, kind, payload) ==
    it.gx = gx /\ it.gy = gy /\ it.kind = kind /\ (kind = 1 \/ it.payload = payload)

ItemOne(st, e) ==
    LET payload == IF e.kind = 0 THEN e.payload ELSE ""
        item == [gx |-> e.gx, gy |-> e.gy, y |-> ItemY(e.y), kind |-> e.kind, payload |-> payload]
        hit == {i \in 1..Len(st.lst) : SameItemForAdd(st.lst[i], e.gx, e.gy, e.kind, payload)}
        first == CHOOSE i \in hit : \A j \in hit : i <= j
        kept == SelectSeq(st.lst, LAMBDA it : ~SameItemForRemove(it, e.gx, e.gy, e.kind, payload))
    IN  IF e.op \notin {"add", "remove"} THEN st
        ELSE IF e.gx < 0 \/ e.gy < 0 \/ e.gx > ITEM_COORD_MAX \/ e.gy > ITEM_COORD_MAX THEN st
        ELSE IF e.op = "add"
        THEN [lst |-> IF hit # {} THEN [st.lst EXCEPT ![first] = item] ELSE Append(st.lst, item),
              valid |-> Append(st.valid, [op |-> "add", gx |-> e.gx, gy |-> e.gy, y |-> ItemY(e.y),
                                          kind |-> e.kind, payload |-> payload])]
        ELSE IF Len(kept) # Len(st.lst)
        THEN [lst |-> kept,
              valid |-> Append(st.valid, [op |-> "remove", gx |-> e.gx, gy |-> e.gy, y |-> 0,
                                          kind |-> e.kind, payload |-> payload])]
        ELSE st

RECURSIVE ItemRange(_, _, _, _)
ItemRange(st, ops, lo, hi) ==
    IF lo > hi THEN st
    ELSE IF lo = hi THEN ItemOne(st, ops[lo])
    ELSE LET half == ItemRange(st, ops, lo, (lo + hi) \div 2)
         IN  IF half = st THEN ItemRange(st, ops, (lo + hi) \div 2 + 1, hi)
             ELSE ItemRange(half, ops, (lo + hi) \div 2 + 1, hi)

ItemLoop(st, ops, i) == ItemRange(st, ops, i, Len(ops))

\* typ == "item_edit" from an identified websocket
ItemEdit(c, ops_raw) ==
    LET channel == ws_meta[c][1]
        lvl == ws_meta[c][2]
        ops == Truncate(ops_raw, MAX_OPS_PER_BATCH)
        lst0 == IF lvl \in DOMAIN level_items THEN level_items[lvl] ELSE <<>>
        st == ItemLoop([lst |-> lst0, valid |-> <<>>], ops, 1)
        touched == \E i \in 1..Len(ops) : ops[i].op \in {"add", "remove"}
                       /\ ~(ops[i].gx < 0 \/ ops[i].gy < 0
                            \/ ops[i].gx > ITEM_COORD_MAX \/ ops[i].gy > ITEM_COORD_MAX)
    IN  /\ Ready(c)
        /\ c \in DOMAIN ws_meta
        /\ level_items' = IF touched \/ lvl \in DOMAIN level_items THEN Put(level_items, lvl, st.lst)
                          ELSE level_items
        /\ h' = [h EXCEPT ![c] = Begin(<<Bcast("item_ops", channel, lvl, 0, st.valid)>>,
                                       connections, ws_meta, level_tiles)]
        /\ last' = [Did("item_edit", c, lvl, <<>>, <<>>) EXCEPT !.arg = st.valid]
        /\ UNCHANGED <<sock, dirs, players, now, admin, level_diffs, level_tiles, level_portals,
                       wire, replica, replay>>

\* ------------------------------------------------------------------ update
\* UpdateFrom that leaves the metadata of an identified websocket as it is
UpdateFrom_KeepScope(c, v, raw) ==
    LET p == [x |-> v.x, y |-> v.y, z |-> v.z, state |-> v.state, rotation |-> v.rotation,
              frozen |-> v.frozen, last_seen |-> now, channel |-> v.channel, level |-> v.level]
        ps == sweep(Put(players, v.id, p), now)
        player == ps[v.id]
        msg == to_update_message(v.id, player, now)
    IN  /\ Ready(c)
        /\ players' = ps
        /\ ws_meta' = IF c \in DOMAIN ws_meta THEN ws_meta ELSE Put(ws_meta, c, <<v.channel, v.level>>)
        /\ h' = [h EXCEPT ![c] = Begin(<<Bcast("update", player.channel, player.level, 0, msg)>>,
                                       connections, ws_meta', level_tiles)]
        /\ last' = [Did("update", c, v.level, <<>>, <<>>) EXCEPT !.arg = raw]
        /\ UNCHANGED <<sock, connections, ws_to_id, ws_map_version, ws_tiles_version, now, admin,
                       stores, wire, replica, replay>>

\* typ == "update" with a message `raw` that validate_update accepts: v is its result
UpdateFrom(c, v, raw) ==
    LET p == [x |-> v.x, y |-> v.y, z |-> v.z, state |-> v.state, rotation |-> v.rotation,
              frozen |-> v.frozen, last_seen |-> now, channel |-> v.channel, level |-> v.level]
        ps == sweep(Put(players, v.id, p), now)
        player == ps[v.id]
        msg == to_update_message(v.id, player, now)
    IN  /\ Ready(c)
        /\ players' = ps
        /\ ws_meta' = Put(ws_meta, c, <<v.channel, v.level>>)
        /\ h' = [h EXCEPT ![c] = Begin(<<Bcast("update", player.channel, player.level, 0, msg)>>,
                                       connections, ws_meta', level_tiles)]
        /\ last' = [Did("update", c, v.level, <<>>, <<>>) EXCEPT !.arg = raw]
        /\ UNCHANGED <<sock, connections, ws_to_id, ws_map_version, ws_tiles_version, now, admin,
                       stores, wire, replica, replay>>

\* ------------------------------------------------------------------ rejected messages
\* await ws.close(code, reason); return: the close frame goes out, the transport
\* is closed, and the handler is about to return through its finally block
\* (HandlerExit from "closing")
CloseWith(c, type, code, reason, raw) ==
    /\ Ready(c)
    /\ sock' = [sock EXCEPT ![c] = "closed"]
    /\ h' = [h EXCEPT ![c] = [pc |-> "closing", cur |-> <<>>, todo |-> <<>>]]
    /\ last' = [Did(type, c, "none", <<>>, <<[type |-> "close", code |-> code, reason |-> reason]>>)
                 EXCEPT !.arg = raw]
    /\ UNCHANGED <<dirs, players, now, admin, stores, wire, replica, replay>>

\* a hello message as it arrives: its id, channel and level ("" when missing)
HelloMsg(c, pid, channel, level, watch) ==
    IF ValidId(pid) THEN Hello(c, pid, channel, level, watch)
    ELSE CloseWith(c, "hello", 1002, "invalid_id", <<pid, channel, level>>)

\* an update message as it arrives
UpdateMsg(c, data) ==
    IF validate_update(data).err = "" THEN UpdateFrom(c, validate_update(data).v, data)
    ELSE CloseWith(c, "update", 1003, validate_update(data).err, data)

\* Drop that closes the connection as a bad update does
Drop_Closing(c, why) == CloseWith(c, "drop", 1003, why, why)

\* a message that json.loads rejects, or whose type no branch handles: the loop
\* goes on to the next message
Drop(c, why) ==
    /\ Ready(c)
    /\ last' = [Did("drop", c, "none", <<>>, <<>>) EXCEPT !.arg = why]
    /\ UNCHANGED <<sock, h, dirs, players, now, admin, stores, wire, replica, replay>>

\* typ == "update" with the message that is its own validated form
Update(c, v) == UpdateFrom(c, v, v)

\* ------------------------------------------------------------------ the gather
\* the send tasks of the handler's gather run, one after the other
RunSends(c, watch) ==
    LET b == h[c].cur[1]
        r == SendAll(wire, b.targets, 1, PayloadOf(b), watch)
    IN  /\ h[c].pc = "gather"
        /\ wire' = r.wire
        /\ QueueOk(wire')
        /\ h' = [h EXCEPT ![c] = [@ EXCEPT !.pc = "sent", !.cur = <<[b EXCEPT !.results = r.results]>>]]
        /\ last' = Did("sends", c, b.level, <<>>, <<>>)
        /\ UNCHANGED <<sock, dirs, players, now, admin, stores, replica, replay>>

\* the handler resumes after its gather: the reaping loop of the broadcast, then the
\* rest of the handler up to its next gather
Resume(c) ==
    LET b == h[c].cur[1]
        dead == DeadOf(b, connections, ws_meta)
        alive == AliveOf(b, connections, ws_meta)
    IN  /\ h[c].pc = "sent"
        /\ connections' = connections \ dead
        /\ ws_to_id' = Without(ws_to_id, dead)
        /\ ws_meta' = Without(ws_meta, dead)
        /\ ws_map_version' = IF b.kind = "map_ops"
                             THEN Without(SetAll(ws_map_version, alive, b.version), dead)
                             ELSE ws_map_version
        /\ ws_tiles_version' = IF b.kind = "tile_ops"
                               THEN Without(SetAll(ws_tiles_version, alive, b.version), dead)
                               ELSE ws_tiles_version
        /\ h' = [h EXCEPT ![c] = Begin(h[c].todo, connections', ws_meta', level_tiles)]
        /\ last' = Did("resume", c, b.level, <<>>, <<>>)
        /\ UNCHANGED <<sock, players, now, admin, stores, wire, replica, replay>>

\* ------------------------------------------------------------------ the transport
\* the peer goes away: sends to the websocket raise from now on
PeerClose(c) ==
    /\ sock[c] = "open"
    /\ sock' = [sock EXCEPT ![c] = "closed"]
    /\ last' = Did("close", c, "none", <<>>, <<>>)
    /\ UNCHANGED <<h, dirs, players, now, admin, stores, wire, replica, replay>>

\* the handler ends. When `async for raw in ws` ends on the closed websocket, the
\* finally block runs and the ws_meta.pop after it; when the handler returns from
\* inside the loop ("closing"), the finally block runs and the lines after it do not
HandlerExit(c) ==
    /\ h[c].pc \in {"recv", "closing"}
    /\ sock[c] = "closed"
    /\ h' = [h EXCEPT ![c] = [pc |-> "done", cur |-> <<>>, todo |-> <<>>]]
    /\ connections' = connections \ {c}
    /\ ws_to_id' = Pop(ws_to_id, c)
    /\ ws_meta' = IF h[c].pc = "recv" THEN Pop(ws_meta, c) ELSE ws_meta
    /\ last' = Did("exit", c, "none", <<>>, <<>>)
    /\ UNCHANGED <<sock, ws_map_version, ws_tiles_version, players, now, admin, stores, wire, replica, replay>>

\* ------------------------------------------------------------------ the clock
\* time passes: now_ms() returns d more
Tick(d) ==
    /\ now + d <= MaxNow
    /\ now' = now + d
    /\ last' = Did("tick", "none", "none", <<>>, <<>>)
    /\ UNCHANGED <<sock, h, dirs, players, admin, stores, wire, replica, replay>>

\* _sweeper_task wakes up: await sweep(now_ms())
SweeperTask ==
    /\ players' = sweep(players, now)
    /\ last' = Did("sweeper", "none", "none", <<>>, <<>>)
    /\ UNCHANGED <<sock, h, dirs, now, admin, stores, wire, replica, replay>>

\* ------------------------------------------------------------------ administration
\* _broadcast_full_state(level): the payloads are built from the stores as they
\* are, the targets are the websockets with metadata of the level, and the
\* command suspends at the gather when there is a target
BroadcastFullState(cmd, diffs, tiles, portals, items, level) ==
    LET d == get_mapdiff(diffs, level)
        t == get_tilediff(tiles, level)
        ts == SeqOf({w \in connections : w \in DOMAIN ws_meta /\ ws_meta[w][2] = level})
        msgs == <<MapFull(d[level], TaggedTypes), TilesFull(t[level]),
                  PortalFull(portals, level), ItemsFull(items, level)>>
    IN  [diffs |-> d, tiles |-> t,
         admin |-> IF ts = <<>> THEN NoAdmin
                   ELSE [pc |-> "gather", cmd |-> cmd, level |-> level, targets |-> ts, msgs |-> msgs]]

\* the second locked section of _admin_delete_level: the placeholders are popped
DropPlaceholders(d, level) == Without(d, {level})

\* the command runs from the stores st up to its first await that suspends, or
\* to its end
AdminRun(cmd, st, level) ==
    LET b == BroadcastFullState(cmd, st.diffs, st.tiles, st.portals, st.items, level)
        over == b.admin.pc = "idle"
    IN  /\ level_diffs' = IF over /\ cmd = "delete" THEN DropPlaceholders(b.diffs, level) ELSE b.diffs
        /\ level_tiles' = IF over /\ cmd = "delete" THEN DropPlaceholders(b.tiles, level) ELSE b.tiles
        /\ level_portals' = st.portals
        /\ level_items' = st.items
        /\ admin' = b.admin
        /\ \A l \in DOMAIN level_diffs' : level_diffs'[l].version <= MaxVersion
        /\ \A l \in DOMAIN level_tiles' : level_tiles'[l].version <= MaxVersion
        /\ last' = Did("admin_" \o cmd, "none", level, <<>>, <<>>)
        /\ UNCHANGED <<sock, h, dirs, players, now, wire, replica, replay>>

\* _admin_reset_level(level)
AdminReset(level) ==
    LET d == get_mapdiff(level_diffs, level)
        t == get_tilediff(level_tiles, level)
        md == d[level]
        td == t[level]
        new_adds == [k \in {x \in DOMAIN md.adds : md.adds[x] = PORTAL_SPAN} |-> md.adds[k]]
        new_set == [k \in {x \in DOMAIN td.set : td.set[x] = TILE_LEVELCHANGE} |-> td.set[k]]
    IN  /\ admin.pc = "idle"
        /\ level \in WellFormedLevels
        /\ AdminRun("reset",
                    [diffs |-> Put(d, level, [version |-> Max(1, md.version + 1), adds |-> new_adds, removes |-> {}]),
                     tiles |-> Put(t, level, [version |-> Max(1, td.version + 1), set |-> new_set]),
                     portals |-> level_portals,
                     items |-> Put(level_items, level, <<>>)],
                    level)

\* _admin_delete_level(level)
AdminDelete(level) ==
    /\ admin.pc = "idle"
    /\ level \in WellFormedLevels
    /\ AdminRun("delete",
                [diffs |-> Put(level_diffs, level, NewMapDiff),
                 tiles |-> Put(level_tiles, level, NewTileDiff),
                 portals |-> Without(level_portals, {level}),
                 items |-> Without(level_items, {level})],
                level)

\* int(ver) of the "version" of an imported file, 1 when it is no number
ImportVersion(v) == IF v.k = "num" THEN v.n ELSE 1

\* _parse_import_json of a file whose "level" is a string, "map" an object with
\* "adds" as a dict and "removes" as a list, and the other members lists
parse_import_json(file) ==
    [level |-> IF file.level = "" THEN "ROOT" ELSE file.level,
     md |-> [version |-> Max(1, ImportVersion(file.version)),
             adds |-> [k \in DOMAIN file.adds |->
                          IF file.adds[k] \in TaggedTypesNoLock THEN file.adds[k] ELSE NORMAL],
             removes |-> file.removes],
     td |-> [version |-> 1, set |-> file.tiles],
     pmap |-> file.portals,
     items |-> [i \in 1..Len(file.items) |->
                   [file.items[i] EXCEPT !.payload = IF file.items[i].kind = 0 THEN @ ELSE ""]]]

\* _admin_import_file(arg) of a file that exists and parses
AdminImport(file) ==
    LET r == parse_import_json(file)
    IN  /\ admin.pc = "idle"
        /\ r.level \in WellFormedLevels
        /\ AdminRun("import",
                    [diffs |-> Put(level_diffs, r.level, r.md),
                     tiles |-> Put(level_tiles, r.level, [version |-> Max(1, r.td.version), set |-> r.td.set]),
                     portals |-> Put(level_portals, r.level, r.pmap),
                     items |-> Put(level_items, r.level, r.items)],
                    r.level)

\* the four payloads to each target, in the order of the awaitables
RECURSIVE SendEach(_, _, _, _)
SendEach(w, ts, msgs, watch) ==
    IF msgs = <<>> THEN w
    ELSE SendEach(SendAll(w, ts, 1, Head(msgs), watch).wire, ts, Tail(msgs), watch)

\* the send tasks of the gather of _broadcast_full_state run
AdminSends(watch) ==
    /\ admin.pc = "gather"
    /\ wire' = SendEach(wire, admin.targets, admin.msgs, watch)
    /\ QueueOk(wire')
    /\ admin' = [admin EXCEPT !.pc = "sent"]
    /\ last' = Did("admin_sends", "none", admin.level, <<>>, <<>>)
    /\ UNCHANGED <<sock, h, dirs, players, now, stores, replica, replay>>

\* the command resumes after the gather; no failed send is looked at
AdminResume ==
    /\ admin.pc = "sent"
    /\ level_diffs' = IF admin.cmd = "delete" THEN DropPlaceholders(level_diffs, admin.level) ELSE level_diffs
    /\ level_tiles' = IF admin.cmd = "delete" THEN DropPlaceholders(level_tiles, admin.level) ELSE level_tiles
    /\ admin' = NoAdmin
    /\ last' = Did("admin_resume", "none", admin.level, <<>>, <<>>)
    /\ UNCHANGED <<sock, h, dirs, players, now, level_portals, level_items, wire, replica, replay>>

\* ------------------------------------------------------------------ the stores
\* Specification of the diff stores and the portal graph: one editor in ROOT
\* edits blocks and portals at the border cells 0,5 and 23,5; portals lead to
\* ROOT itself or to LEVELB, so mirrored ops land in either level.
StoreKeys == {<<0, 5, 1>>, <<23, 5, 1>>}
StorePortalKeys == {<<0, 5>>, <<23, 5>>}
StoreLevels == {"ROOT", "LEVELB"}
AddOp(k, t) == [op |-> "add", key |-> k, t |-> t]
RemoveOp(k) == [op |-> "remove", key |-> k, t |-> NoT]

StoreMapBatches ==
    {<<AddOp(k, t)>> : k \in StoreKeys, t \in {PORTAL_SPAN, NoT}}
        \cup {<<RemoveOp(k)>> : k \in StoreKeys}
        \cup {<<AddOp(<<23, 5, 1>>, LOCK)>>,
              <<AddOp(<<0, 5, 1>>, PORTAL_SPAN), AddOp(<<23, 5, 1>>, PORTAL_SPAN)>>,
              <<AddOp(<<0, 5, 1>>, PORTAL_SPAN), RemoveOp(<<0, 5, 1>>)>>,
              <<AddOp(<<0, 5, 1>>, PORTAL_SPAN), RemoveOp(<<23, 5, 1>>)>>}

SetPortal(k, d) == [op |-> "set", k |-> k, dest |-> d]
RemovePortal(k) == [op |-> "remove", k |-> k, dest |-> ""]

StorePortalBatches ==
    {<<SetPortal(<<0, 5>>, d)>> : d \in StoreLevels} \cup {<<RemovePortal(<<0, 5>>)>>}

SetTile(k, v) == [op |-> "set", k |-> k, v |-> v]

StoreNext ==
    \/ Connect("c1")
    \/ Hello("c1", "player-1", "DEFAULT", "ROOT", {})
    \/ \E ops \in StoreMapBatches : MapEdit("c1", ops)
    \/ \E ops \in StorePortalBatches : PortalEdit("c1", ops)
    \/ RunSends("c1", {})
    \/ Resume("c1")

StoreSpec == Init /\ [][StoreNext]_vars

\* ------------------------------------------------------------------ the portal graph
\* Specification of the portal graph and the tile overrides: one editor that moves
\* between two levels and edits portals and tiles at the border cells 0,5 and 23,5.
PortalBatches ==
    {<<SetPortal(<<0, 5>>, d)>> : d \in StoreLevels}
        \cup {<<RemovePortal(<<0, 5>>)>>,
              <<SetPortal(<<0, 5>>, "LEVELB"), SetPortal(<<23, 5>>, "LEVELB")>>,
              <<SetPortal(<<0, 5>>, "ROOT"), SetPortal(<<23, 5>>, "LEVELB")>>}

PortalTileBatches ==
    {<<SetTile(<<23, 5>>, 1)>>, <<SetTile(<<0, 5>>, 1), SetTile(<<0, 5>>, TILE_LEVELCHANGE)>>}

PortalNext ==
    \/ Connect("c1")
    \/ ("c1" \notin DOMAIN ws_meta /\ Hello("c1", "player-1", "DEFAULT", "ROOT", {}))
    \/ LevelChange("c1", "LEVELB", {})
    \/ \E ops \in PortalTileBatches : TileEdit("c1", ops)
    \/ \E ops \in PortalBatches : PortalEdit("c1", ops)
    \/ RunSends("c1", {})
    \/ Resume("c1")

PortalSpec == Init /\ [][PortalNext]_vars

\* ------------------------------------------------------------------ properties of the stores
VersionOf(diffs, l) == IF l \in DOMAIN diffs THEN diffs[l].version ELSE 1

ContentOf(diffs, l) ==
    IF l \in DOMAIN diffs THEN [adds |-> diffs[l].adds, removes |-> diffs[l].removes]
    ELSE [adds |-> EmptyDict, removes |-> {}]

\* the apply calls of the last message that returned net ops for level l
Batches(store, l) ==
    {i \in 1..Len(last.applied) :
        /\ last.applied[i].store = store
        /\ last.applied[i].level = l
        /\ last.applied[i].net # <<>>}

\* the step is the handling of one map_edit or portal_edit message
MapStep ==
    /\ last'.type \in {"map_edit", "portal_edit"}
    /\ (last' # last \/ level_diffs' # level_diffs)

\* C2 (as the code has it): one map_edit or portal_edit message raises a level's
\* MapDiff version by the number of batches it applied to that level that returned
\* net ops: its own batch, and one batch per mirrored op
C2_VersionPerBatch ==
    [][MapStep =>
        \A l \in DOMAIN level_diffs' :
            VersionOf(level_diffs', l) = VersionOf(level_diffs, l) + Cardinality(Batches("map", l)')]_vars

\* C2 (as stated): one message raises a level's version by exactly 1 if it changed
\* the level's adds or removes, and leaves it otherwise
C2_VersionPerMessage ==
    [][MapStep =>
        \A l \in DOMAIN level_diffs' :
            VersionOf(level_diffs', l) = VersionOf(level_diffs, l)
                + (IF ContentOf(level_diffs', l) # ContentOf(level_diffs, l) THEN 1 ELSE 0)]_vars

\* a map_edit whose own batch and mirrored batch both changed one level
C2_Witness ==
    /\ last.type = "map_edit"
    /\ \E l \in DOMAIN level_diffs : Cardinality(Batches("map", l)) >= 2

\* C3: for every level, no cell key is in both adds and removes
C3_AddsRemovesDisjoint ==
    \A l \in DOMAIN level_diffs : (DOMAIN level_diffs[l].adds) \cap level_diffs[l].removes = {}

\* a mirrored edit has run and some level holds adds and removes at once
C3_Witness ==
    /\ last.type = "map_edit"
    /\ Len(last.applied) >= 2
    /\ \E l \in DOMAIN level_diffs :
           /\ DOMAIN level_diffs[l].adds # {}
           /\ level_diffs[l].removes # {}
           /\ Batches("map", l) # {}

ReplayOf(l) == IF l \in DOMAIN replay THEN replay[l] ELSE NoReplica

\* C6: the returned net ops of all batches, replayed in order from empty, give
\* every level's adds (with types) and removes
C6_ReplayEqualsStore ==
    \A l \in DOMAIN level_diffs :
        /\ ReplayOf(l).adds = level_diffs[l].adds
        /\ ReplayOf(l).removes = level_diffs[l].removes

\* the replay holds a retagged add and a removed key
C6_Witness ==
    /\ last.type = "map_edit"
    /\ \E l \in DOMAIN replay :
           /\ \E k \in DOMAIN replay[l].adds : replay[l].adds[k] = NORMAL
           /\ replay[l].removes # {}
           /\ level_diffs[l].version = MaxVersion

\* ------------------------------------------------------------------ properties of tiles and portals
TileVersionOf(tiles, l) == IF l \in DOMAIN tiles THEN tiles[l].version ELSE 1

TileSetOf(tiles, l) == IF l \in DOMAIN tiles THEN tiles[l].set ELSE EmptyDict

\* the step is the handling of one tile_edit or portal_edit message
TileStep ==
    /\ last'.type \in {"tile_edit", "portal_edit"}
    /\ (last' # last \/ level_tiles' # level_tiles)

\* C7 (as the code has it): a tile_edit message raises its level's TileDiff version
\* by 1 when it changed a tile; a portal_edit message raises a level's version by 1
\* for each of its ops that set a level-change tile there; no other step changes it
C7_TileVersionPerSet ==
    [][\A l \in DOMAIN level_tiles' :
          TileVersionOf(level_tiles', l) = TileVersionOf(level_tiles, l)
              + (IF TileStep THEN Cardinality(Batches("tile", l)') ELSE 0)]_vars

\* C7 (as stated): a message that changes a level's tile overrides raises the
\* level's TileDiff version by exactly 1, any other leaves it
C7_TileVersionPerMessage ==
    [][\A l \in DOMAIN level_tiles' :
          TileVersionOf(level_tiles', l) = TileVersionOf(level_tiles, l)
              + (IF TileSetOf(level_tiles', l) # TileSetOf(level_tiles, l) THEN 1 ELSE 0)]_vars

\* a portal_edit set two level-change tiles in one level
C7_Witness ==
    /\ last.type = "portal_edit"
    /\ \E l \in DOMAIN level_tiles : Cardinality(Batches("tile", l)) >= 2

\* the cell on the opposite wall of the 24x24 grid
C10_Opposite(k) ==
    IF k[1] = 0 THEN <<23, k[2]>>
    ELSE IF k[1] = 23 THEN <<0, k[2]>>
    ELSE IF k[2] = 0 THEN <<k[1], 23>>
    ELSE <<k[1], 0>>

C10_Border(k) == Len(k) = 2 /\ (k[1] \in {0, 23} \/ k[2] \in {0, 23})

\* the portal_full messages among the handler's own sends
PortalFullsSent == {m \in Range(last.sent) : m.type = "portal_full"}

\* C10: after a portal_edit, for each of its set ops that changed the mapping of its
\* level L at a border cell k with destination D (and that no later op of the same
\* message overwrote, which takes D = L), D maps opposite(k) to L; and every
\* portal_full lists the whole mapping of its level
C10_ReturnPortal ==
    /\ last.type = "portal_edit" =>
          \A i \in 1..Len(last.arg) :
              LET e == last.arg[i]
                  later == \E j \in (i + 1)..Len(last.arg) :
                               e.dest = last.level /\ last.arg[j].k = C10_Opposite(e.k)
              IN  (e.op = "set" /\ C10_Border(e.k) /\ ~later) =>
                      /\ C10_Opposite(e.k) \in DOMAIN PortalsOf(level_portals, e.dest)
                      /\ PortalsOf(level_portals, e.dest)[C10_Opposite(e.k)] = last.level
    /\ last.type \in {"hello", "level_change"} =>
          /\ PortalFullsSent # {}
          /\ \A m \in PortalFullsSent :
                 m.portals = {[k |-> k, dest |-> PortalsOf(level_portals, last.level)[k]] :
                                 k \in DOMAIN PortalsOf(level_portals, last.level)}

\* the portal_full of LEVELB lists the return portal "23,5" -> ROOT
C10_Witness ==
    /\ last.type = "level_change"
    /\ last.level = "LEVELB"
    /\ \E m \in PortalFullsSent : [k |-> <<23, 5>>, dest |-> "ROOT"] \in m.portals

\* the net op of a map_edit in level L that C12 lets cross into another level: an
\* add of a PORTAL_SPAN marker, or the remove of a key that held one, at a border
\* cell of L with portal metadata
C12_Crosses(op, L) ==
    /\ Len(op.key) = 3
    /\ C10_Border(<<op.key[1], op.key[2]>>)
    /\ <<op.key[1], op.key[2]>> \in DOMAIN PortalsOf(level_portals, L)
    /\ \/ op.op = "add" /\ op.t = PORTAL_SPAN
       \/ /\ op.op = "remove"
          /\ op.key \in DOMAIN MD(L).adds
          /\ MD(L).adds[op.key] = PORTAL_SPAN

\* the same add or remove at the opposite cell and the same height
C12_Mirrored(op) ==
    [op EXCEPT !.key = <<C10_Opposite(<<op.key[1], op.key[2]>>)[1],
                         C10_Opposite(<<op.key[1], op.key[2]>>)[2], op.key[3]>>]

\* the mirrored ops that net ops `net` of level L bring to level l
C12_Into(net, L, l) ==
    LET sel == SelectSeq(net, LAMBDA op :
                   C12_Crosses(op, L) /\ PortalsOf(level_portals, L)[<<op.key[1], op.key[2]>>] = l)
    IN  [i \in 1..Len(sel) |-> C12_Mirrored(sel[i])]

\* C12 (as stated): a map_edit in level L changes the adds and removes of another
\* level l only by the mirrored form of its net ops that add or remove a
\* PORTAL_SPAN marker at a border cell of L whose portal leads to l; the add or
\* remove of a block of another type changes no other level
C12_MirrorOnlyPortalSpans ==
    [][last'.type = "map_edit" =>
          \A l \in (DOMAIN level_diffs') \ {last'.level} :
              LET after == ClientApply(ContentOf(level_diffs, l),
                                       C12_Into(last'.applied[1].net, last'.level, l), 1)
              IN  ContentOf(level_diffs', l) = [adds |-> after.adds, removes |-> after.removes]]_vars

\* the valid ops of the message are removes, and there is one at least
OnlyRemoves(ops) == ops # <<>> /\ \A i \in 1..Len(ops) : ops[i].op = "remove"

\* C11: a portal_edit whose effective ops are removes of keys of its level L takes
\* exactly those keys out of L's mapping; every other mapping of L, the mapping of
\* every other level (return portals included), every tile override, map block
\* and item stays as it was
C11_RemoveOnlyForward ==
    [][(last'.type = "portal_edit" /\ OnlyRemoves(last'.arg)) =>
          /\ \A l \in (DOMAIN level_portals) \cup (DOMAIN level_portals') :
                 PortalsOf(level_portals', l) =
                     IF l = last'.level
                     THEN Without(PortalsOf(level_portals, l), {last'.arg[i].k : i \in 1..Len(last'.arg)})
                     ELSE PortalsOf(level_portals, l)
          /\ level_diffs' = level_diffs
          /\ level_tiles' = level_tiles
          /\ level_items' = level_items]_vars

\* the portal "0,5" of ROOT was removed and its return portal "23,5" -> ROOT is
\* still in LEVELB, next to the level-change tile set with it
C11_Witness ==
    /\ last.type = "portal_edit"
    /\ last.level = "ROOT"
    /\ last.arg = <<[op |-> "remove", k |-> <<0, 5>>, dest |-> ""]>>
    /\ <<0, 5>> \notin DOMAIN PortalsOf(level_portals, "ROOT")
    /\ <<23, 5>> \in DOMAIN PortalsOf(level_portals, "LEVELB")
    /\ PortalsOf(level_portals, "LEVELB")[<<23, 5>>] = "ROOT"
    /\ <<23, 5>> \in DOMAIN TD("LEVELB").set

\* ------------------------------------------------------------------ the items
\* Specification of the item store: one editor in ROOT adds and removes PAYLOAD
\* items (kind 0) and MARKER items (kind 1) at the cells 5,5 and 6,5, with
\* different payloads and heights, one or two per message.
ItemAdd(gx, gy, y, kind, payload) ==
    [op |-> "add", gx |-> gx, gy |-> gy, y |-> y, kind |-> kind, payload |-> payload]

ItemRemove(gx, gy, kind, payload) ==
    [op |-> "remove", gx |-> gx, gy |-> gy, y |-> 0, kind |-> kind, payload |-> payload]

ItemBatches ==
    {<<ItemAdd(5, 5, 0, 0, "a")>>,
     <<ItemAdd(5, 5, 100, 0, "a")>>,
     <<ItemAdd(5, 5, 0, 0, "b")>>,
     <<ItemAdd(5, 5, 0, 1, "x")>>,
     <<ItemAdd(6, 5, 0, 1, "")>>,
     <<ItemAdd(5, 5, 0, 0, "a"), ItemAdd(5, 5, 100, 0, "a")>>,
     <<ItemAdd(5, 5, 0, 1, "x"), ItemAdd(5, 5, 100, 1, "y")>>,
     <<ItemRemove(5, 5, 0, "a")>>,
     <<ItemRemove(5, 5, 1, "z")>>,
     <<ItemRemove(5, 5, 0, "a"), ItemAdd(5, 5, 0, 0, "a")>>}

ItemNext ==
    \/ Connect("c1")
    \/ ("c1" \notin DOMAIN ws_meta /\ Hello("c1", "player-1", "DEFAULT", "ROOT", {}))
    \/ \E ops \in ItemBatches : ItemEdit("c1", ops)
    \/ RunSends("c1", {})
    \/ Resume("c1")

ItemSpec == Init /\ [][ItemNext]_vars

\* the uniqueness signature of a stored item
C13_Signature(it) ==
    IF it.kind = 0 THEN <<it.gx, it.gy, it.kind, it.payload>> ELSE <<it.gx, it.gy, it.kind>>

\* C13: in every level, no two stored items have the same uniqueness signature:
\* (gx, gy, kind, payload) for a PAYLOAD item, (gx, gy, kind) for a MARKER item
C13_UniqueSignatures ==
    \A l \in DOMAIN level_items :
        \A i, j \in 1..Len(level_items[l]) :
            i # j => C13_Signature(level_items[l][i]) # C13_Signature(level_items[l][j])

\* one message added two MARKER items at 5,5 with different payloads and heights;
\* the level holds one marker there, the later one, next to two PAYLOAD items
C13_Witness ==
    /\ last.type = "item_edit"
    /\ Len(last.arg) = 2
    /\ \A i \in 1..2 : last.arg[i].op = "add" /\ last.arg[i].kind = 1 /\ last.arg[i].gx = 5
    /\ "ROOT" \in DOMAIN level_items
    /\ Cardinality({i \in 1..Len(level_items["ROOT"]) :
                       C13_Signature(level_items["ROOT"][i]) = <<5, 5, 1>>}) = 1
    /\ \E i \in 1..Len(level_items["ROOT"]) :
           C13_Signature(level_items["ROOT"][i]) = <<5, 5, 1>> /\ level_items["ROOT"][i].y = 100
    /\ Cardinality({i \in 1..Len(level_items["ROOT"]) : level_items["ROOT"][i].kind = 0}) = 2

\* ------------------------------------------------------------------ the presence registry
\* Specification of the presence registry: c1 and c2 identify in (C1, ROOT); c1
\* sends updates, c2 asks for fresh snapshots with level_change; the clock moves
\* by 1 ms or by the TTL, so that a player's age reaches 3000 and 3001 ms.
PresenceUpdate ==
    [id |-> "player-c1", x |-> 1, y |-> 2, z |-> 3, state |-> "ball", rotation |-> 90,
     frozen |-> FALSE, channel |-> "C1", level |-> "ROOT"]

PresenceTicks == {1, TTL_MS}

\* the instants of the model: at most MaxSlack ms after a multiple of the TTL
AtInstant(t) == t % TTL_MS <= MaxSlack

PresenceNext ==
    \/ \E c \in {"c1", "c2"} : Connect(c)
    \/ ("c1" \notin DOMAIN ws_meta /\ Hello("c1", "player-c1", "DEFAULT", "ROOT", {}))
    \/ ("c2" \notin DOMAIN ws_meta /\ Hello("c2", "player-c2", "C1", "ROOT", {}))
    \/ Update("c1", PresenceUpdate)
    \/ LevelChange("c2", "ROOT", {})
    \/ \E d \in PresenceTicks : (AtInstant(now + d) /\ Tick(d))
    \/ SweeperTask
    \/ \E c \in {"c1", "c2"} : RunSends(c, {})
    \/ \E c \in {"c1", "c2"} : Resume(c)

PresenceSpec == Init /\ [][PresenceNext]_vars

\* the players of ps whose age at ts is at most 3000 ms
C14_Keep(ps, ts) == [pid \in {q \in DOMAIN ps : ts - ps[q].last_seen <= 3000} |-> ps[pid]]

SnapshotsSent == {m \in Range(last.sent) : m.type = "snapshot"}

\* C14: a step that sweeps (hello, level_change, the sweeper task, and update after
\* it stored its player) leaves exactly the players whose age is at most 3000 ms,
\* each as it was, and no other step removes a player; and a snapshot lists only
\* players that are in the registry, so none that a sweep removed and that has
\* not sent an update since
C14_SweepExact ==
    /\ [][/\ last'.type \in {"hello", "level_change", "sweeper"} => players' = C14_Keep(players, now)
          /\ last'.type = "update" =>
                 \E pid \in DOMAIN players' :
                     /\ players'[pid].last_seen = now
                     /\ players' = C14_Keep(Put(players, pid, players'[pid]), now)
          /\ last'.type \notin {"hello", "level_change", "sweeper", "update"} => players' = players]_vars
    /\ [](\A m \in SnapshotsSent :
             \A e \in m.players :
                 /\ e.id \in DOMAIN players
                 /\ e.ageMs = now - players[e.id].last_seen
                 /\ e.ageMs <= 3000)

\* player-c1 sent an update in (C1, ROOT) and was swept since; the snapshot that c2
\* gets in (C1, ROOT) lists nobody
C14_Witness ==
    /\ last.type = "level_change"
    /\ last.conn = "c2"
    /\ "c1" \in DOMAIN ws_meta
    /\ ws_meta["c1"] = <<"C1", "ROOT">>
    /\ ws_meta["c2"] = <<"C1", "ROOT">>
    /\ "player-c1" \notin DOMAIN players
    /\ \E m \in SnapshotsSent : m.players = {}

\* ------------------------------------------------------------------ the full resync
\* Specification of the full-state messages: one client that identifies in ROOT,
\* adds interior blocks of every type tag, edits one tile, asks for resyncs with
\* every `have`, and moves to LEVELB and back.
SyncKey(t) == <<t + 1, 1, 0>>

\* one block of every type tag, in the order of the tags
SyncAllTypes == [i \in 1..Cardinality(TypeTags) |->
                    LET t == CHOOSE x \in TypeTags : Cardinality({y \in TypeTags : y < x}) = i - 1
                    IN  AddOp(SyncKey(t), IF t = NORMAL THEN NoT ELSE t)]

SyncMapBatches ==
    {SyncAllTypes, <<RemoveOp(SyncKey(HAZARD))>>, <<AddOp(SyncKey(LOCK), NoT)>>}

SyncTileBatches == {<<SetTile(<<3, 3>>, 1)>>, <<SetTile(<<3, 3>>, 2)>>}

\* int(have) of the request: -1 for a missing or non-integer `have`
SyncHaves == {-1} \cup (1..MaxVersion)

\* the client edits while it is in ROOT
SyncInRoot == "c1" \in DOMAIN ws_meta /\ ws_meta["c1"][2] = "ROOT"

SyncNext ==
    \/ Connect("c1")
    \/ ("c1" \notin DOMAIN ws_meta /\ Hello("c1", "player-1", "DEFAULT", "ROOT", {}))
    \/ \E l \in StoreLevels : LevelChange("c1", l, {})
    \/ \E ops \in SyncMapBatches : (SyncInRoot /\ MapEdit("c1", ops))
    \/ \E ops \in SyncTileBatches : (SyncInRoot /\ TileEdit("c1", ops))
    \/ \E have \in SyncHaves : MapSync("c1", have, {})
    \/ \E have \in SyncHaves : TilesSync("c1", have, {})
    \/ RunSends("c1", {})
    \/ Resume("c1")

SyncSpec == Init /\ [][SyncNext]_vars

\* ------------------------------------------------------------------ properties of the full resync
MapFullsSent == {m \in Range(last.sent) : m.type = "map_full"}

TilesFullsSent == {m \in Range(last.sent) : m.type = "tiles_full"}

KeysOf(ops, op) == {o.key : o \in {x \in Range(ops) : x.op = op}}

C5_MapFullExact ==
    last.type \in {"hello", "map_sync", "level_change"} =>
        \A m \in MapFullsSent :
            /\ ClientReceive(NoReplica, m).adds = MD(last.level).adds
            /\ ClientReceive(NoReplica, m).removes = MD(last.level).removes
            /\ m.version = MD(last.level).version
            /\ m.baseVersion = 0

\* ------------------------------------------------------------------ the fan-out
\* Specification of the broadcast router: c1 identifies in (C1, ROOT), sends
\* updates and edits; c2 identifies in (C2, ROOT); c3 identifies in (C1, ROOT),
\* moves to LEVELB, and may go away.
NetChannel == [c \in Conns |-> IF c = "c2" THEN "C2" ELSE "C1"]

NetUpdate ==
    [id |-> "player-c1", x |-> 1, y |-> 2, z |-> 3, state |-> "good", rotation |-> NoRotation,
     frozen |-> FALSE, channel |-> "C1", level |-> "ROOT"]

NetItem == [op |-> "add", gx |-> 3, gy |-> 3, y |-> 0, kind |-> 1, payload |-> ""]

NetNext ==
    \/ \E c \in Conns : Connect(c)
    \/ \E c \in Conns : (c \notin DOMAIN ws_meta /\ Hello(c, "player-" \o c, NetChannel[c], "ROOT", {}))
    \/ LevelChange("c3", "LEVELB", {})
    \/ Update("c1", NetUpdate)
    \/ MapEdit("c1", <<AddOp(<<3, 3, 0>>, LOCK)>>)
    \/ TileEdit("c1", <<SetTile(<<3, 3>>, 1)>>)
    \/ ItemEdit("c1", <<NetItem>>)
    \/ PortalEdit("c1", <<SetPortal(<<3, 3>>, "LEVELB")>>)
    \/ \E c \in Conns : RunSends(c, {})
    \/ \E c \in Conns : Resume(c)
    \/ PeerClose("c3")
    \/ HandlerExit("c3")

NetSpec == Init /\ [][NetNext]_vars

\* ------------------------------------------------------------------ properties of the fan-out
\* the broadcasts whose sends have run, of the given kinds
SentBcasts(kinds) ==
    {h[c].cur[1] : c \in {x \in Conns : h[x].pc = "sent" /\ h[x].cur[1].kind \in kinds}}

\* the websockets whose send of the broadcast succeeded / raised
Delivered(b) == {b.targets[i] : i \in {j \in 1..Len(b.targets) : b.results[j]}}

Failed(b) == {b.targets[i] : i \in {j \in 1..Len(b.targets) : ~b.results[j]}}

\* the connections with exactly the metadata (channel, level) of the broadcast when
\* it resolved its targets
InScopeAt(b) ==
    {w \in b.connsAt : w \in DOMAIN b.metaAt /\ b.metaAt[w] = <<b.channel, b.level>>}

\* the connections without metadata when the broadcast resolved its targets
UnidentifiedAt(b) == {w \in b.connsAt : w \notin DOMAIN b.metaAt}

\* the connections with metadata of the level of the broadcast, in any channel
InLevelAt(b) ==
    {w \in b.connsAt : w \in DOMAIN b.metaAt /\ b.metaAt[w][2] = b.level}

UpdateSends(c) ==
    h[c].pc = "gather" /\ h'[c].pc = "sent" /\ h[c].cur[1].kind = "update"

EditKinds == {"map_ops", "tile_ops", "item_ops", "portal_ops"}

\* C9 (as the code has it): the map_ops, tile_ops, item_ops and portal_ops of an
\* edit go to exactly the connections that have metadata with the level of the
\* broadcast, in any channel; a connection without metadata gets none
C9_EditTargetsByLevel ==
    \A b \in SentBcasts(EditKinds) : Delivered(b) \cup Failed(b) = InLevelAt(b)

\* C9 (as stated): they go to exactly the connections with metadata (C, L) and the
\* connections without metadata
C9_EditTargetsByScope ==
    \A b \in SentBcasts(EditKinds) :
        Delivered(b) \cup Failed(b) = InScopeAt(b) \cup UnidentifiedAt(b)

\* map_ops of c1 in (C1, ROOT) reached c2 in (C2, ROOT) and not the unidentified c3
C9_Witness ==
    \E b \in SentBcasts({"map_ops"}) :
        /\ b.channel = "C1"
        /\ "c2" \in Delivered(b)
        /\ "c3" \in UnidentifiedAt(b)
        /\ "c3" \notin Delivered(b)

\* the handler of c resumes after the gather of a broadcast in this step
Reaps(c) == h[c].pc = "sent" /\ h'[c] # h[c]

\* C17: when the handler resumes after the gather of a broadcast, every websocket
\* whose send failed is in none of the directories: not in connections, ws_to_id,
\* ws_meta, ws_map_version or ws_tiles_version
C17_FailedSendReaped ==
    [][\A c \in Conns :
          Reaps(c) =>
              \A w \in Failed(h[c].cur[1]) :
                  /\ w \notin connections'
                  /\ w \notin DOMAIN ws_to_id'
                  /\ w \notin DOMAIN ws_meta'
                  /\ w \notin DOMAIN ws_map_version'
                  /\ w \notin DOMAIN ws_tiles_version']_vars

\* ------------------------------------------------------------------ the lock
\* the shared objects that the step assigns
Mutated ==
    {n \in {"connections"} : connections' # connections}
    \cup {n \in {"ws_to_id"} : ws_to_id' # ws_to_id}
    \cup {n \in {"ws_meta"} : ws_meta' # ws_meta}
    \cup {n \in {"ws_map_version"} : ws_map_version' # ws_map_version}
    \cup {n \in {"ws_tiles_version"} : ws_tiles_version' # ws_tiles_version}
    \cup {n \in {"players"} : players' # players}
    \cup {n \in {"level_diffs"} : level_diffs' # level_diffs}
    \cup {n \in {"level_tiles"} : level_tiles' # level_tiles}
    \cup {n \in {"level_portals"} : level_portals' # level_portals}
    \cup {n \in {"level_items"} : level_items' # level_items}

\* the shared objects that a step of the given type assigns inside `async with lock`
\*   sweep (of hello, update, level_change and the sweeper task): players
\*   update: players, ws_meta          map_edit: level_diffs
\*   tile_edit: level_tiles            item_edit: level_items
\*   portal_edit: level_portals, level_diffs, level_tiles
\*   reset: level_diffs, level_tiles, level_items; delete and import: the four stores
\* the locked sections of hello and level_change only read, for the snapshot
LockedWrites(type) ==
    CASE type \in {"hello", "level_change", "sweeper"} -> {"players"}
      [] type = "update" -> {"players", "ws_meta"}
      [] type = "map_edit" -> {"level_diffs"}
      [] type = "tile_edit" -> {"level_tiles"}
      [] type = "item_edit" -> {"level_items"}
      [] type = "portal_edit" -> {"level_portals", "level_diffs", "level_tiles"}
      [] type = "admin_reset" -> {"level_diffs", "level_tiles", "level_items"}
      [] type \in {"admin_delete", "admin_import"} -> {"level_diffs", "level_tiles", "level_portals", "level_items"}
      [] type = "admin_resume" -> {"level_diffs", "level_tiles"}
      [] OTHER -> {}

\* C18: every step assigns shared objects only inside a locked section of its
\* handler: the presence registry, the diff stores, the item store, the portal
\* graph, the connection set, the id map, the scope metadata and both trackers
C18_MutationsUnderLock == [][Mutated \subseteq LockedWrites(last'.type)]_vars

\* the same for the stores and the registry alone, leaving lazy creation aside:
\* a MapDiff or TileDiff that exists is assigned only inside a locked section
C18_StoresUnderLock ==
    [][/\ (Mutated \cap {"players", "level_items", "level_portals"}) \subseteq LockedWrites(last'.type)
       /\ \A l \in DOMAIN level_diffs :
              (l \notin DOMAIN level_diffs' \/ level_diffs'[l] # level_diffs[l])
                  => "level_diffs" \in LockedWrites(last'.type)
       /\ \A l \in DOMAIN level_tiles :
              (l \notin DOMAIN level_tiles' \/ level_tiles'[l] # level_tiles[l])
                  => "level_tiles" \in LockedWrites(last'.type)]_vars

\* ------------------------------------------------------------------ the replicas
\* Specification of the client replicas: c1 identifies in ROOT and edits a block at
\* the border cell 0,5 and the portal there; c2 identifies in ROOT and moves to
\* LEVELB; both keep a replica from the map_full and map_ops they receive.
ReplicaWatch == {"map_full", "map_ops"}

ReplicaMapBatches ==
    {<<AddOp(<<0, 5, 1>>, LOCK)>>, <<AddOp(<<0, 5, 1>>, PORTAL_SPAN)>>, <<RemoveOp(<<0, 5, 1>>)>>}

ReplicaNext ==
    \/ \E c \in {"c1", "c2"} : Connect(c)
    \/ \E c \in {"c1", "c2"} :
           (c \notin DOMAIN ws_meta /\ Hello(c, "player-" \o c, "DEFAULT", "ROOT", ReplicaWatch))
    \/ LevelChange("c2", "LEVELB", ReplicaWatch)
    \/ \E ops \in ReplicaMapBatches : MapEdit("c1", ops)
    \/ PortalEdit("c1", <<SetPortal(<<0, 5>>, "LEVELB")>>)
    \/ \E c \in {"c1", "c2"} : RunSends(c, ReplicaWatch)
    \/ \E c \in {"c1", "c2"} : Resume(c)
    \/ \E c \in {"c1", "c2"} : Receive(c)

ReplicaSpec == Init /\ [][ReplicaNext]_vars

\* no handler is in the middle of a broadcast
Quiet == \A c \in Conns : h[c].pc \in {"none", "recv", "done"}

\* C1 (as stated): the replica of an identified connection whose sends all
\* succeed equals the MapDiff of its level, adds with type tags and removes,
\* whenever no message to it is in flight
C1_ReplicaEqualsStore ==
    \A c \in DOMAIN ws_meta :
        (replica[c].synced /\ sock[c] = "open" /\ wire[c] = <<>> /\ Quiet) =>
            /\ replica[c].adds = MD(ws_meta[c][2]).adds
            /\ replica[c].removes = MD(ws_meta[c][2]).removes

\* ------------------------------------------------------------------ the session
\* Specification of the session protocol: c1 identifies in (DEFAULT, ROOT), sends an
\* update and edits a block and an item; c2 sends hello and update messages, well
\* formed or with one bad field each, and messages the server cannot read.
LongChannel == "abcdefghijklmnopqrstuvwxyz0123456"

\* hello messages <<id, channel, level>> of c2
SessionHellos ==
    {<<"player-c2", "C1", "">>,
     <<"player-c2", "", "LEVELB">>,
     <<"player-c2", LongChannel, "bad level">>,
     <<"short", "C1", "ROOT">>,
     <<"", "C1", "ROOT">>}

GoodUpdate ==
    [id |-> "player-c2", channel |-> "C1", level |-> "ROOT",
     pos |-> [x |-> Num(1), y |-> Num(2), z |-> Missing],
     state |-> "ball", rotation |-> Num(450), frozen |-> FALSE]

SessionUpdates ==
    {GoodUpdate,
     [GoodUpdate EXCEPT !.channel = ""],
     [GoodUpdate EXCEPT !.level = ""],
     [GoodUpdate EXCEPT !.state = "good", !.rotation = Missing],
     [GoodUpdate EXCEPT !.id = "short"],
     [GoodUpdate EXCEPT !.channel = LongChannel],
     [GoodUpdate EXCEPT !.level = "bad level"],
     [GoodUpdate EXCEPT !.pos.x = Null],
     [GoodUpdate EXCEPT !.pos.y = Text],
     [GoodUpdate EXCEPT !.pos.z = Null],
     [GoodUpdate EXCEPT !.state = "fly"],
     [GoodUpdate EXCEPT !.rotation = Missing]}

SessionDrops == {"not_json", "unknown_type"}

SessionNext ==
    \/ \E c \in {"c1", "c2"} : Connect(c)
    \/ ("c1" \notin DOMAIN ws_meta /\ Hello("c1", "player-c1", "", "ROOT", {}))
    \/ UpdateMsg("c1", [GoodUpdate EXCEPT !.id = "player-c1", !.channel = "", !.state = "good",
                                            !.rotation = Missing])
    \/ MapEdit("c1", <<AddOp(<<3, 3, 0>>, LOCK)>>)
    \/ ItemEdit("c1", <<NetItem>>)
    \/ \E m \in SessionHellos : HelloMsg("c2", m[1], m[2], m[3], {})
    \/ \E data \in SessionUpdates : UpdateMsg("c2", data)
    \/ \E why \in SessionDrops : Drop("c2", why)
    \/ \E c \in {"c1", "c2"} : RunSends(c, {})
    \/ \E c \in {"c1", "c2"} : Resume(c)
    \/ HandlerExit("c2")

SessionSpec == Init /\ [][SessionNext]_vars

\* ------------------------------------------------------------------ properties of the session
\* an update message with a bad id, channel, level, position or state, or a ball
\* without a usable rotation
C15_BadUpdate(d) ==
    \/ Len(d.id) < 8
    \/ Len(d.channel) > 32
    \/ (d.level # "" /\ d.level \notin {"ROOT", "LEVELB", "LEVELX"})
    \/ d.pos.x.k # "num"
    \/ d.pos.y.k # "num"
    \/ d.pos.z.k \notin {"num", "missing"}
    \/ d.state \notin {"good", "ball"}
    \/ (d.state = "ball" /\ d.rotation.k # "num")

\* a hello message <<id, channel, level>> with a bad id, channel or level
C15_BadHello(a) ==
    \/ Len(a[1]) < 8
    \/ Len(a[2]) > 32
    \/ (a[3] # "" /\ a[3] \notin {"ROOT", "LEVELB", "LEVELX"})

\* the connection of the step is closed with the code and one of the reasons, and
\* the registry, the metadata of every connection and the stores are as before
C15_Rejected(code, reasons) ==
    /\ sock[last'.conn] = "open"
    /\ sock'[last'.conn] = "closed"
    /\ Len(last'.sent) = 1
    /\ last'.sent[1].type = "close"
    /\ last'.sent[1].code = code
    /\ last'.sent[1].reason \in reasons
    /\ UNCHANGED <<players, ws_meta, level_diffs, level_tiles, level_portals, level_items>>

C15_Reasons ==
    {"invalid_id", "invalid_channel", "invalid_level", "invalid_pos", "invalid_state",
     "rotation_required"}

C16_DroppedSilently ==
    [][last'.type = "drop" =>
          /\ UNCHANGED <<sock, h, connections, ws_to_id, ws_meta, ws_map_version, ws_tiles_version>>
          /\ UNCHANGED <<players, level_diffs, level_tiles, level_portals, level_items, wire>>
          /\ last'.sent = <<>>
          /\ sock'[last'.conn] = "open"
          /\ h'[last'.conn].pc = "recv"]_vars

\* a message with an unknown type of the identified c2 was dropped while the
\* registry and the stores held data
C16_Witness ==
    /\ last.type = "drop"
    /\ last.arg = "unknown_type"
    /\ last.conn \in DOMAIN ws_meta
    /\ players # EmptyDict
    /\ DOMAIN MD("ROOT").adds # {}
    /\ Ready(last.conn)

\* the channel and the level a hello <<id, channel, level>> identifies with
C20_Channel(a) == IF a[2] = "" \/ Len(a[2]) > 32 THEN "DEFAULT" ELSE a[2]

C20_Level(a) == IF a[3] \in {"ROOT", "LEVELB", "LEVELX"} THEN a[3] ELSE "ROOT"

\* C20: after a hello with a valid id the connection has the metadata (channel,
\* level) of the message, DEFAULT and ROOT standing in for a missing or bad name,
\* and it was sent, in this order, the snapshot of the others in that channel and
\* level, and map_full, tiles_full, portal_full and items_full of that level
C20_HelloIdentifies ==
    (last.type = "hello" /\ Len(last.arg[1]) >= 8) =>
        LET c == last.conn
            ch == C20_Channel(last.arg)
            lv == C20_Level(last.arg)
        IN  /\ c \in DOMAIN ws_meta
            /\ ws_meta[c] = <<ch, lv>>
            /\ ws_to_id[c] = last.arg[1]
            /\ [i \in 1..Len(last.sent) |-> last.sent[i].type] =
                   <<"snapshot", "map_full", "tiles_full", "portal_full", "items_full">>
            /\ last.sent[1].players =
                   {to_snapshot_entry(q, players[q], now) :
                       q \in {x \in DOMAIN players :
                                 x # last.arg[1] /\ players[x].channel = ch /\ players[x].level = lv}}
            /\ last.sent[2].version = MD(lv).version
            /\ KeysOf(last.sent[2].ops, "add") = DOMAIN MD(lv).adds
            /\ KeysOf(last.sent[2].ops, "remove") = MD(lv).removes
            /\ last.sent[3].version = TD(lv).version
            /\ last.sent[3].tiles = {[k |-> k, v |-> TD(lv).set[k]] : k \in DOMAIN TD(lv).set}
            /\ last.sent[4].portals =
                   {[k |-> k, dest |-> PortalsOf(level_portals, lv)[k]] :
                       k \in DOMAIN PortalsOf(level_portals, lv)}
            /\ last.sent[5].items = IF lv \in DOMAIN level_items THEN level_items[lv] ELSE <<>>

\* c2 said hello with a channel of 33 characters and an ill-formed level: it is in
\* (DEFAULT, ROOT) and got the snapshot with player-c1 and the block and the item
\* of ROOT
C20_Witness ==
    /\ last.type = "hello"
    /\ last.conn = "c2"
    /\ last.arg = <<"player-c2", LongChannel, "bad level">>
    /\ ws_meta["c2"] = <<"DEFAULT", "ROOT">>
    /\ Len(last.sent) = 5
    /\ \E e \in last.sent[1].players : e.id = "player-c1"
    /\ last.sent[2].ops # <<>>
    /\ last.sent[5].items # <<>>


\* ------------------------------------------------------------------ the operator
\* Specification of the administrative commands: c1 identifies in ROOT and edits
\* a block and a tile there, while the operator resets, deletes and imports ROOT.
AdminFile(version) ==
    [level |-> "ROOT", version |-> version, adds |-> Put(EmptyDict, <<4, 4, 0>>, LOCK), removes |-> {},
     tiles |-> EmptyDict, portals |-> EmptyDict, items |-> <<>>]

AdminFiles == {AdminFile(Missing), AdminFile(Num(2))}

AdminNext ==
    \/ Connect("c1")
    \/ ("c1" \notin DOMAIN ws_meta /\ Hello("c1", "player-c1", "C1", "ROOT", {}))
    \/ \E op \in {AddOp(<<3, 3, 0>>, NORMAL), RemoveOp(<<3, 3, 0>>)} : MapEdit("c1", <<op>>)
    \/ \E v \in {1, 2} : TileEdit("c1", <<SetTile(<<3, 3>>, v)>>)
    \/ AdminReset("ROOT")
    \/ AdminDelete("ROOT")
    \/ \E f \in AdminFiles : AdminImport(f)
    \/ AdminSends({})
    \/ AdminResume
    \/ RunSends("c1", {})
    \/ Resume("c1")

AdminSpec == Init /\ [][AdminNext]_vars

\* the step is a step of an administrative command
AdminStep == last'.type \in {"admin_reset", "admin_delete", "admin_import", "admin_sends", "admin_resume"}

VersionsGrow ==
    \A l \in WellFormedLevels :
        /\ VersionOf(level_diffs', l) >= VersionOf(level_diffs, l)
        /\ TileVersionOf(level_tiles', l) >= TileVersionOf(level_tiles, l)

\* C19: the MapDiff version and the TileDiff version of every level (1 for a level
\* that no store holds yet) are at least 1 and no step lowers them, be it the
\* handling of a protocol message or a step of reset, import or delete
C19_VersionsNeverDecrease ==
    /\ [][VersionsGrow]_vars
    /\ [](\A l \in WellFormedLevels : VersionOf(level_diffs, l) >= 1 /\ TileVersionOf(level_tiles, l) >= 1)

\* the same for the steps that handle protocol messages alone
C19_ProtocolVersionsNeverDecrease == [][~AdminStep => VersionsGrow]_vars

\* ------------------------------------------------------------------ the snapshots
\* Specification of the snapshots: c1 and c2 send updates, c1 in (C1, ROOT) and c2
\* in (C2, ROOT), each with the id "player-" and its own name; they identify with
\* that id in (C1, ROOT), before or after, or not at all, and ask for a fresh
\* snapshot with level_change; the clock moves by 1 ms or by the TTL.
SnapshotUpdate(c) ==
    [PresenceUpdate EXCEPT !.id = "player-" \o c, !.channel = IF c = "c1" THEN "C1" ELSE "C2"]

SnapshotNext ==
    \/ \E c \in {"c1", "c2"} : Connect(c)
    \/ \E c \in {"c1", "c2"} : (c \notin DOMAIN ws_to_id /\ Hello(c, "player-" \o c, "C1", "ROOT", {}))
    \/ \E c \in {"c1", "c2"} : Update(c, SnapshotUpdate(c))
    \/ \E c \in {"c1", "c2"} : LevelChange(c, "ROOT", {})
    \/ \E d \in PresenceTicks : (AtInstant(now + d) /\ Tick(d))
    \/ \E c \in {"c1", "c2"} : RunSends(c, {})
    \/ \E c \in {"c1", "c2"} : Resume(c)

SnapshotSpec == Init /\ [][SnapshotNext]_vars

\* the entries of the snapshot are players of the scope of the connection that
\* asked, each with its age
SnapshotInScope(m) ==
    \A e \in m.players :
        /\ <<e.channel, e.level>> = ws_meta[last.conn]
        /\ e.id \in DOMAIN players
        /\ e.ageMs = Max(0, now - players[e.id].last_seen)

\* C21: a snapshot sent on hello or level_change lists only players of the channel
\* and level of the connection, each with ageMs = max(0, now - last_seen), and
\* never the player of the connection itself (the player "player-c" that the
\* updates of connection c register)
C21_SnapshotOfOthersInScope ==
    \A m \in SnapshotsSent :
        /\ SnapshotInScope(m)
        /\ \A e \in m.players : e.id # "player-" \o last.conn

\* the same, where the player of the connection is the one whose id its hello gave
C21_SnapshotWithoutHelloId ==
    \A m \in SnapshotsSent :
        /\ SnapshotInScope(m)
        /\ \A e \in m.players : last.conn \in DOMAIN ws_to_id => e.id # ws_to_id[last.conn]

\* ------------------------------------------------------------------ list_levels
\* typ == "list_levels": the levels of level_diffs, each with the version of its MapDiff
ListLevels(c, watch) ==
    LET listing == [l \in DOMAIN level_diffs |-> level_diffs[l].version]
        msg == [type |-> "levels", levels |-> listing]
    IN  /\ Ready(c)
        /\ wire' = SendSeq(wire, c, <<msg>>, watch)
        /\ QueueOk(wire')
        /\ last' = Did("list_levels", c, "none", <<>>, <<msg>>)
        /\ UNCHANGED <<sock, h, dirs, players, now, admin, stores, replica, replay>>

\* _levels_all_known(): the levels with an entry in one of the four stores
levels_all_known ==
    DOMAIN level_diffs \cup DOMAIN level_tiles \cup DOMAIN level_items \cup DOMAIN level_portals

\* Specification of the level listing: c1 identifies in ROOT, edits a block, an
\* item and the portal of the border cell 0,5 toward LEVELB, and asks for the
\* listing.
LevelsNext ==
    \/ Connect("c1")
    \/ ("c1" \notin DOMAIN ws_meta /\ Hello("c1", "player-c1", "C1", "ROOT", {}))
    \/ \E op \in {AddOp(<<3, 3, 0>>, NORMAL), RemoveOp(<<3, 3, 0>>)} : MapEdit("c1", <<op>>)
    \/ ItemEdit("c1", <<NetItem>>)
    \/ \E op \in {SetPortal(<<0, 5>>, "LEVELB"), RemovePortal(<<0, 5>>)} : PortalEdit("c1", <<op>>)
    \/ ListLevels("c1", {})
    \/ RunSends("c1", {})
    \/ Resume("c1")

LevelsSpec == Init /\ [][LevelsNext]_vars

LevelsSent == {m \in Range(last.sent) : m.type = "levels"}

\* C22: the answer to list_levels names every level that has a MapDiff, a
\* TileDiff, items or portals in memory, each with the version of its MapDiff
\* (1 for a level whose MapDiff is yet to be created)
C22_ListsEveryKnownLevel ==
    \A m \in LevelsSent :
        /\ DOMAIN m.levels = levels_all_known
        /\ \A l \in DOMAIN m.levels : m.levels[l] = VersionOf(level_diffs, l)

\* the answer names the levels that have a MapDiff, each with its version
C22_ListsLevelsOfMapDiffs ==
    \A m \in LevelsSent :
        /\ DOMAIN m.levels = DOMAIN level_diffs
        /\ \A l \in DOMAIN m.levels : m.levels[l] = level_diffs[l].version

\* ------------------------------------------------------------------ the batch cap
\* Specification of the batch cap: c1 identifies in ROOT and sends edits of 513
\* ops, whose first 512 ops are one op repeated and whose last op touches another
\* key: a block at 4,4,0, a tile at 4,4, an item at 4,4 and the portal of the
\* border cell 0,5; it also removes the portal that it set.
Overlong(first, beyond) ==
    [i \in 1..(MAX_OPS_PER_BATCH + 1) |-> IF i <= MAX_OPS_PER_BATCH THEN first ELSE beyond]

CapMap == Overlong(AddOp(<<3, 3, 0>>, LOCK), AddOp(<<4, 4, 0>>, LOCK))
CapTiles == Overlong(SetTile(<<3, 3>>, 1), SetTile(<<4, 4>>, 1))
CapItems == Overlong(NetItem, [NetItem EXCEPT !.gx = 4, !.gy = 4])
CapPortals == Overlong(SetPortal(<<3, 3>>, "LEVELB"), SetPortal(<<0, 5>>, "LEVELB"))

CapNext ==
    \/ Connect("c1")
    \/ ("c1" \notin DOMAIN ws_meta /\ Hello("c1", "player-c1", "C1", "ROOT", {}))
    \/ MapEdit("c1", CapMap)
    \/ TileEdit("c1", CapTiles)
    \/ ItemEdit("c1", CapItems)
    \/ \E ops \in {CapPortals, <<RemovePortal(<<3, 3>>)>>} : PortalEdit("c1", ops)
    \/ RunSends("c1", {})
    \/ Resume("c1")

CapSpec == Init /\ [][CapNext]_vars

\* the first 512 ops of a batch
First512(ops) == SubSeq(ops, 1, 512)

\* C23: the handling of a map_edit, tile_edit, item_edit or portal_edit of 513 ops
\* is, in the stores, the broadcasts and everything else, the handling of its
\* first 512 ops
C23_TruncatedNotRejected ==
    [][/\ MapEdit("c1", CapMap) => MapEdit("c1", First512(CapMap))
       /\ TileEdit("c1", CapTiles) => TileEdit("c1", First512(CapTiles))
       /\ ItemEdit("c1", CapItems) => ItemEdit("c1", First512(CapItems))
       /\ PortalEdit("c1", CapPortals) => PortalEdit("c1", First512(CapPortals))]_vars

\* the four overlong batches were handled: ROOT holds what their first 512 ops
\* put there, and nothing of their last op
C23_Witness ==
    /\ "ROOT" \in DOMAIN level_items
    /\ <<3, 3, 0>> \in DOMAIN MD("ROOT").adds
    /\ <<4, 4, 0>> \notin DOMAIN MD("ROOT").adds
    /\ <<3, 3>> \in DOMAIN TD("ROOT").set
    /\ TD("ROOT").set[<<3, 3>>] = 1
    /\ <<4, 4>> \notin DOMAIN TD("ROOT").set
    /\ \E i \in 1..Len(level_items["ROOT"]) : level_items["ROOT"][i].gx = 3
    /\ \A i \in 1..Len(level_items["ROOT"]) : level_items["ROOT"][i].gx # 4
    /\ PortalsOf(level_portals, "ROOT") = Put(EmptyDict, <<3, 3>>, "LEVELB")
    /\ "LEVELB" \notin DOMAIN level_portals

\* ------------------------------------------------------------------ the rotation
\* Specification of the rotation: c1 and c2 identify in (C1, ROOT); c2 sends
\* updates as a ball with the rotations 370, -10, 0, 359 and NaN, and as a good
\* player with the rotation 370.
RotationUpdates ==
    {[GoodUpdate EXCEPT !.rotation = r] : r \in {Num(370), Num(-10), Num(0), Num(359), NaN}}
    \cup {[GoodUpdate EXCEPT !.state = "good", !.rotation = Num(370)]}

RotationNext ==
    \/ \E c \in {"c1", "c2"} : Connect(c)
    \/ \E c \in {"c1", "c2"} : (c \notin DOMAIN ws_meta /\ Hello(c, "player-" \o c, "C1", "ROOT", {}))
    \/ \E d \in RotationUpdates : UpdateMsg("c2", d)
    \/ RunSends("c2", {})
    \/ Resume("c2")
    \/ PeerClose("c1")
    \/ HandlerExit("c1")

RotationSpec == Init /\ [][RotationNext]_vars

\* r is the rotation of update d after validation: for a ball the submitted
\* rotation modulo 360, a number of [0, 360); none for a good player
Normalized(d, r) ==
    IF d.state = "ball"
    THEN r \in 0..359 /\ (d.rotation.k = "num" => r = d.rotation.n % 360)
    ELSE r = NoRotation

\* C24: an accepted update stores its player with the normalized rotation and
\* broadcasts it so, and the sends of the broadcast deliver it to the peer
\* identified in the channel and level of the update
C24_RotationNormalized ==
    /\ [][(last'.type = "update" /\ sock' = sock) =>
              /\ Normalized(last'.arg, players'[last'.arg.id].rotation)
              /\ Normalized(last'.arg, h'[last'.conn].cur[1].ops.rotation)]_vars
    /\ [](\A b \in SentBcasts({"update"}) :
              \A w \in InScopeAt(b) : sock[w] = "open" => w \in Delivered(b))

\* the same for the updates whose rotation is a number
C24_NumbersNormalized ==
    /\ [][(last'.type = "update" /\ sock' = sock /\ last'.arg.rotation.k = "num") =>
              /\ Normalized(last'.arg, players'[last'.arg.id].rotation)
              /\ Normalized(last'.arg, h'[last'.conn].cur[1].ops.rotation)]_vars
    /\ [](\A b \in SentBcasts({"update"}) :
              \A w \in InScopeAt(b) : sock[w] = "open" => w \in Delivered(b))

\* ------------------------------------------------------------------ last op wins
\* Specification of the batches that name a key more than once: c1 identifies in
\* ROOT and sends map_edit and tile_edit batches in which a key comes twice, with
\* another key in between, with an add after a remove and a remove after an add,
\* and with an entry that is not valid after a valid one.
DedupMapBatches ==
    {<<AddOp(<<3, 3, 0>>, LOCK), AddOp(<<4, 4, 0>>, NoT), AddOp(<<3, 3, 0>>, HAZARD)>>,
     <<AddOp(<<3, 3, 0>>, NoT), RemoveOp(<<3, 3, 0>>)>>,
     <<RemoveOp(<<3, 3, 0>>), AddOp(<<3, 3, 0>>, LOCK)>>,
     <<RemoveOp(<<4, 4, 0>>), [AddOp(<<4, 4, 0>>, NoT) EXCEPT !.op = "toggle"]>>}

DedupTileBatches ==
    {<<SetTile(<<3, 3>>, 2), SetTile(<<4, 4>>, 1), SetTile(<<3, 3>>, 1)>>,
     <<SetTile(<<3, 3>>, 1), SetTile(<<3, 3>>, 2)>>,
     <<SetTile(<<4, 4>>, 2), [SetTile(<<4, 4>>, 1) EXCEPT !.op = "unset"]>>}

DedupNext ==
    \/ Connect("c1")
    \/ ("c1" \notin DOMAIN ws_meta /\ Hello("c1", "player-c1", "C1", "ROOT", {}))
    \/ \E ops \in DedupMapBatches : MapEdit("c1", ops)
    \/ \E ops \in DedupTileBatches : TileEdit("c1", ops)
    \/ RunSends("c1", {})
    \/ Resume("c1")

DedupSpec == Init /\ [][DedupNext]_vars

\* the positions of a batch that hold the last valid entry of their key
LastOfKey(ops, i) ==
    /\ ValidEditEntry(ops[i])
    /\ \A j \in (i + 1)..Len(ops) : ValidEditEntry(ops[j]) => ops[j].key # ops[i].key

LastOfK(ops, i) ==
    /\ ValidTileEntry(ops[i])
    /\ \A j \in (i + 1)..Len(ops) : ValidTileEntry(ops[j]) => ops[j].k # ops[i].k

\* the entries of a batch at the positions that satisfy keep, in their order
RECURSIVE Kept(_, _, _)
Kept(ops, i, keep) ==
    IF i > Len(ops) THEN <<>>
    ELSE (IF i \in keep THEN <<ops[i]>> ELSE <<>>) \o Kept(ops, i + 1, keep)

ReducedMap(ops) == Kept(ops, 1, {i \in 1..Len(ops) : LastOfKey(ops, i)})

ReducedTiles(ops) == Kept(ops, 1, {i \in 1..Len(ops) : LastOfK(ops, i)})

\* the net ops of the step, whatever their order
NetOf(l) == IF l.applied = <<>> THEN {} ELSE Range(l.applied[1].net)

\* C25: a map_edit or tile_edit whose batch names a key more than once leaves the
\* MapDiff or TileDiff, version included, that the batch of the last valid entry of
\* each key leaves, and returns the same net ops (in the order in which the keys
\* first come in the batch)
C25_LastOpWins ==
    [][/\ \A ops \in DedupMapBatches :
              MapEdit("c1", ops) =>
                  LET r == apply_edit_ops_to_level(level_diffs, "ROOT", ReducedMap(ops))
                  IN  /\ level_diffs' = r.diffs
                      /\ NetOf(last') = Range(r.net)
       /\ \A ops \in DedupTileBatches :
              TileEdit("c1", ops) =>
                  LET r == ApplyTiles(TD("ROOT"), BuildLastTiles(ReducedTiles(ops), 1, <<>>), 1, <<>>)
                  IN  /\ level_tiles' = Put(level_tiles, "ROOT", BumpTiles(r.td, r.valid))
                      /\ NetOf(last') = Range(r.valid)]_vars

\* the first batch of c1 named 3,3,0 twice, as a LOCK and then as a HAZARD block,
\* with 4,4,0 in between: both are there, 3,3,0 as a HAZARD block
C25_Witness ==
    /\ last.type = "map_edit"
    /\ MD("ROOT").version = 2
    /\ <<4, 4, 0>> \in DOMAIN MD("ROOT").adds
    /\ <<3, 3, 0>> \in DOMAIN MD("ROOT").adds
    /\ MD("ROOT").adds[<<3, 3, 0>>] = HAZARD

\* C25 as the sentence reads when net ops are compared as the lists that are
\* broadcast: the list of a batch is the list of its reduced batch. The dict of
\* apply_edit_ops_to_level keeps a key at the place of its first entry, the
\* reduced batch has it at the place of its last one.
C25_LastOpWinsInOrder ==
    [][\A ops \in DedupMapBatches :
           MapEdit("c1", ops) =>
               /\ last'.applied # <<>>
               /\ last'.applied[1].net
                      = apply_edit_ops_to_level(level_diffs, "ROOT", ReducedMap(ops)).net]_vars

\* ------------------------------------------------------------------ the mirrored spans
\* Specification of the portal spans of a linked border cell: c1 identifies in ROOT,
\* sets the portal of 0,5 to LEVELB while ROOT and LEVELB hold no block at 0,5 and
\* at 23,5, and sends map_edit batches in ROOT.
BlocksAt(l, cell) == {k \in DOMAIN MD(l).adds : k[1] = cell[1] /\ k[2] = cell[2]}

SpanAt(l, cell, y) ==
    /\ <<cell[1], cell[2], y>> \in DOMAIN MD(l).adds
    /\ MD(l).adds[<<cell[1], cell[2], y>>] = PORTAL_SPAN

SpanNext ==
    \/ Connect("c1")
    \/ ("c1" \notin DOMAIN ws_meta /\ Hello("c1", "player-1", "DEFAULT", "ROOT", {}))
    \/ /\ \A l \in StoreLevels : \A cell \in StorePortalKeys : BlocksAt(l, cell) = {}
       /\ PortalEdit("c1", <<SetPortal(<<0, 5>>, "LEVELB")>>)
    \/ \E ops \in StoreMapBatches : MapEdit("c1", ops)
    \/ RunSends("c1", {})
    \/ Resume("c1")

SpanSpec == Init /\ [][SpanNext]_vars

SpanLinked ==
    /\ <<0, 5>> \in DOMAIN PortalsOf(level_portals, "ROOT")
    /\ PortalsOf(level_portals, "ROOT")[<<0, 5>>] = "LEVELB"

\* C26 (as stated): once 0,5 of ROOT leads to LEVELB, LEVELB holds a PORTAL_SPAN add
\* at 23,5 at height y exactly when ROOT holds one at 0,5 at height y
C26_SpansMirrored ==
    SpanLinked => \A y \in 0..2 : SpanAt("LEVELB", <<23, 5>>, y) <=> SpanAt("ROOT", <<0, 5>>, y)

\* the half of C26 that the server keeps: a PORTAL_SPAN add of ROOT at 0,5 has its
\* PORTAL_SPAN add in LEVELB at 23,5 at the same height
C26_SpansOfSourceMirrored ==
    SpanLinked => \A y \in 0..2 : SpanAt("ROOT", <<0, 5>>, y) => SpanAt("LEVELB", <<23, 5>>, y)

\* ------------------------------------------------------------------ the mirrored form
\* Specification of the form a return portal takes: c1 identifies in ROOT, puts
\* and removes blocks at 0,5 at the heights 1 and 2, sets a tile at 23,5, and sets
\* and removes the portal of 0,5, to LEVELB or to ROOT itself.
FormMapBatches ==
    {<<AddOp(<<0, 5, y>>, PORTAL_SPAN)>> : y \in {1, 2}}
        \cup {<<AddOp(<<0, 5, 2>>, NoT)>>, <<RemoveOp(<<0, 5, 2>>)>>}

FormNext ==
    \/ Connect("c1")
    \/ ("c1" \notin DOMAIN ws_meta /\ Hello("c1", "player-1", "DEFAULT", "ROOT", {}))
    \/ \E ops \in FormMapBatches : MapEdit("c1", ops)
    \/ TileEdit("c1", <<SetTile(<<23, 5>>, 1)>>)
    \/ \E ops \in StorePortalBatches : PortalEdit("c1", ops)
    \/ RunSends("c1", {})
    \/ Resume("c1")

FormSpec == Init /\ [][FormNext]_vars

FormSpans == {y \in 0..3 : SpanAt("ROOT", <<0, 5>>, y)}

FormTop == CHOOSE y \in FormSpans : \A z \in FormSpans : z <= y

\* C27: a portal_edit that sets the portal of 0,5 of ROOT to a level D it did not
\* lead to gives D a PORTAL_SPAN add at 23,5 at the greatest height of the
\* PORTAL_SPAN adds of ROOT at 0,5 and leaves the tile overrides of D alone; when
\* ROOT has none, the tile 23,5 of D becomes TILE_LEVELCHANGE and the MapDiff of D
\* is left alone
C27_MirroredForm ==
    [][\A D \in StoreLevels :
           (/\ PortalEdit("c1", <<SetPortal(<<0, 5>>, D)>>)
            /\ ~(/\ <<0, 5>> \in DOMAIN PortalsOf(level_portals, "ROOT")
                 /\ PortalsOf(level_portals, "ROOT")[<<0, 5>>] = D))
           => IF FormSpans # {}
              THEN /\ <<23, 5, FormTop>> \in DOMAIN MD(D)'.adds
                   /\ MD(D)'.adds[<<23, 5, FormTop>>] = PORTAL_SPAN
                   /\ \A k \in (DOMAIN MD(D)'.adds \cup DOMAIN MD(D).adds) \ {<<23, 5, FormTop>>} :
                          /\ k \in DOMAIN MD(D)'.adds
                          /\ k \in DOMAIN MD(D).adds
                          /\ MD(D)'.adds[k] = MD(D).adds[k]
                   /\ TD(D)' = TD(D)
              ELSE /\ <<23, 5>> \in DOMAIN TD(D)'.set
                   /\ TD(D)'.set[<<23, 5>>] = TILE_LEVELCHANGE
                   /\ MD(D)' = MD(D)]_vars

\* ROOT has PORTAL_SPAN adds at 0,5 at the heights 1 and 2, and the portal_edit
\* just handled gave LEVELB its add at 23,5 at height 2
C27_Witness ==
    /\ last.type = "portal_edit"
    /\ SpanAt("ROOT", <<0, 5>>, 1)
    /\ SpanAt("ROOT", <<0, 5>>, 2)
    /\ \E i \in 1..Len(last.applied) :
           /\ last.applied[i].store = "map"
           /\ last.applied[i].level = "LEVELB"
           /\ last.applied[i].net = <<AddOp(<<23, 5, 2>>, PORTAL_SPAN)>>

\* ------------------------------------------------------------------ the portal set again
\* Specification of a portal that is set to the level it leads to: c1 edits in ROOT
\* and c2 in LEVELB, in one channel. c1 sets and removes the portal of 0,5 to
\* LEVELB and puts a portal span there; c2 removes the return portal of 23,5,
\* overrides its tile and removes the mirrored span.
AgainPortalBatches == {<<SetPortal(<<0, 5>>, "LEVELB")>>, <<RemovePortal(<<0, 5>>)>>}

AgainNext ==
    \/ \E c \in {"c1", "c2"} : Connect(c)
    \/ ("c1" \notin DOMAIN ws_meta /\ Hello("c1", "player-c1", "DEFAULT", "ROOT", {}))
    \/ ("c2" \notin DOMAIN ws_meta /\ Hello("c2", "player-c2", "DEFAULT", "LEVELB", {}))
    \/ \E ops \in AgainPortalBatches : PortalEdit("c1", ops)
    \/ MapEdit("c1", <<AddOp(<<0, 5, 1>>, PORTAL_SPAN)>>)
    \/ PortalEdit("c2", <<RemovePortal(<<23, 5>>)>>)
    \/ TileEdit("c2", <<SetTile(<<23, 5>>, 1)>>)
    \/ MapEdit("c2", <<RemoveOp(<<23, 5, 1>>)>>)
    \/ \E c \in {"c1", "c2"} : RunSends(c, {})
    \/ \E c \in {"c1", "c2"} : Resume(c)

AgainSpec == Init /\ [][AgainNext]_vars

AgainLinked ==
    /\ <<0, 5>> \in DOMAIN PortalsOf(level_portals, "ROOT")
    /\ PortalsOf(level_portals, "ROOT")[<<0, 5>>] = "LEVELB"

\* C28: a portal_edit that sets 0,5 of ROOT to LEVELB while it leads to LEVELB
\* accepts no op and has nothing to broadcast, and leaves the portals, the blocks
\* and the tile overrides of every level as they are
C28_SameDestinationNoOp ==
    [][(AgainLinked /\ PortalEdit("c1", <<SetPortal(<<0, 5>>, "LEVELB")>>))
           => /\ last'.arg = <<>>
              /\ last'.applied = <<>>
              /\ h'["c1"] = Idle
              /\ UNCHANGED <<level_portals, level_diffs, level_tiles>>]_vars

\* c1 has set the portal again after c2 removed the return portal, overrode its
\* tile and removed the mirrored span: LEVELB still has none of them
C28_Witness ==
    /\ last.type = "portal_edit"
    /\ last.conn = "c1"
    /\ last.arg = <<>>
    /\ AgainLinked
    /\ "c2" \in DOMAIN ws_meta
    /\ <<23, 5>> \notin DOMAIN PortalsOf(level_portals, "LEVELB")
    /\ <<23, 5>> \in DOMAIN TD("LEVELB").set
    /\ TD("LEVELB").set[<<23, 5>>] = 1
    /\ SpanAt("ROOT", <<0, 5>>, 1)
    /\ ~SpanAt("LEVELB", <<23, 5>>, 1)

\* ------------------------------------------------------------------ the reach of a portal set
\* Specification of what a portal set reaches: one editor walks from ROOT to LEVELB
\* and on to LEVELX, sets the portal of 0,5 of the level it is in toward the other
\* levels and removes it, and puts a portal span at 0,5.
ReachLevels == {"ROOT", "LEVELB", "LEVELX"}

\* the editor walks on: from ROOT to LEVELB, from LEVELB to LEVELX
ReachForward(l) ==
    /\ "c1" \in DOMAIN ws_meta
    /\ ws_meta["c1"][2] = (IF l = "LEVELB" THEN "ROOT" ELSE "LEVELB")

ReachNext ==
    \/ Connect("c1")
    \/ ("c1" \notin DOMAIN ws_meta /\ Hello("c1", "player-1", "DEFAULT", "ROOT", {}))
    \/ \E l \in {"LEVELB", "LEVELX"} : (ReachForward(l) /\ LevelChange("c1", l, {}))
    \/ \E D \in ReachLevels :
           /\ "c1" \in DOMAIN ws_meta
           /\ D # ws_meta["c1"][2]
           /\ PortalEdit("c1", <<SetPortal(<<0, 5>>, D)>>)
    \/ PortalEdit("c1", <<RemovePortal(<<0, 5>>)>>)
    \/ MapEdit("c1", <<AddOp(<<0, 5, 1>>, PORTAL_SPAN)>>)
    \/ RunSends("c1", {})
    \/ Resume("c1")

ReachSpec == Init /\ [][ReachNext]_vars

\* the portal mappings of level l other than the one of key k
PortalsBut(portals, l, k) ==
    {<<q, PortalsOf(portals, l)[q]>> : q \in DOMAIN PortalsOf(portals, l) \ {k}}

\* C29: a portal_edit that sets 0,5 of the level L of the editor to another level D
\* leaves the MapDiff, the tile overrides and the other portal mappings of L as
\* they are, and the portal mappings of every level other than L and D
C29_SetReachesOnlyDestination ==
    [][\A L \in ReachLevels : \A D \in ReachLevels \ {L} :
           (/\ "c1" \in DOMAIN ws_meta
            /\ ws_meta["c1"][2] = L
            /\ PortalEdit("c1", <<SetPortal(<<0, 5>>, D)>>))
           => /\ MD(L)' = MD(L)
              /\ TD(L)' = TD(L)
              /\ PortalsBut(level_portals', L, <<0, 5>>) = PortalsBut(level_portals, L, <<0, 5>>)
              /\ \A l \in ReachLevels \ {L, D} :
                     PortalsOf(level_portals', l) = PortalsOf(level_portals, l)]_vars

\* the editor, in LEVELB, has set 0,5 to LEVELX: LEVELX got its return portal,
\* while LEVELB keeps the return portal that leads to ROOT and ROOT its portal
C29_Witness ==
    /\ last.type = "portal_edit"
    /\ last.level = "LEVELB"
    /\ Len(last.arg) = 1
    /\ last.arg[1].op = "set"
    /\ last.arg[1].dest = "LEVELX"
    /\ PortalsOf(level_portals, "LEVELX") = (<<23, 5>> :> "LEVELB")
    /\ PortalsOf(level_portals, "LEVELB") = (<<0, 5>> :> "LEVELX") @@ (<<23, 5>> :> "ROOT")
    /\ PortalsOf(level_portals, "ROOT") = (<<0, 5>> :> "LEVELB")

\* ------------------------------------------------------------------ the accepted item ops
\* Specification of the item removes: c1 identifies in ROOT and adds and removes
\* items at 5,5: payload items, a marker and items of kind 2, of which the add
\* loop replaces none, so that a remove finds several; one batch has a remove
\* before and after an add and an add outside the grid.
MaxItems == 4

ClearBatches ==
    {<<ItemAdd(5, 5, 0, 0, "a")>>,
     <<ItemAdd(5, 5, 0, 0, "b")>>,
     <<ItemAdd(5, 5, 0, 1, "")>>,
     <<ItemAdd(5, 5, 0, 2, "")>>,
     <<ItemAdd(5, 5, 100, 2, "")>>,
     <<ItemRemove(5, 5, 0, "a")>>,
     <<ItemRemove(5, 5, 1, "q")>>,
     <<ItemRemove(5, 5, 2, "")>>,
     <<ItemRemove(5, 5, 0, "a"), ItemAdd(-1, 5, 0, 0, "a"),
       ItemAdd(5, 5, 0, 0, "a"), ItemRemove(5, 5, 0, "a")>>}

ClearNext ==
    \/ Connect("c1")
    \/ ("c1" \notin DOMAIN ws_meta /\ Hello("c1", "player-1", "DEFAULT", "ROOT", {}))
    \/ \E ops \in ClearBatches : (ItemEdit("c1", ops) /\ Len(level_items'["ROOT"]) <= MaxItems)
    \/ RunSends("c1", {})
    \/ Resume("c1")

ClearSpec == Init /\ [][ClearNext]_vars

ItemsOf(items, l) == IF l \in DOMAIN items THEN items[l] ELSE <<>>

\* the uniqueness signature of an op: cell and kind, and the payload for kind 0
Signature(it, e) ==
    /\ it.gx = e.gx /\ it.gy = e.gy /\ it.kind = e.kind
    /\ (e.kind = 0 => it.payload = e.payload)

InGrid(e) == e.gx >= 0 /\ e.gy >= 0 /\ e.gx <= ITEM_COORD_MAX /\ e.gy <= ITEM_COORD_MAX

\* the items of ROOT when op i of the batch is reached
ItemsBefore(ops, i) ==
    ItemLoop([lst |-> ItemsOf(level_items, "ROOT"), valid |-> <<>>], SubSeq(ops, 1, i - 1), 1).lst

\* the positions of the ops that C30 calls accepted
Accepted(ops) ==
    {i \in 1..Len(ops) :
        /\ ops[i].op \in {"add", "remove"}
        /\ InGrid(ops[i])
        /\ \/ ops[i].op = "add"
           \/ \E k \in 1..Len(ItemsBefore(ops, i)) : Signature(ItemsBefore(ops, i)[k], ops[i])}

\* an op as item_ops carries it
AsItemOp(e) ==
    [op |-> e.op, gx |-> e.gx, gy |-> e.gy, y |-> IF e.op = "add" THEN ItemY(e.y) ELSE 0,
     kind |-> e.kind, payload |-> IF e.kind = 0 THEN e.payload ELSE ""]

AcceptedOps(ops) ==
    LET k == Kept(ops, 1, Accepted(ops)) IN [j \in 1..Len(k) |-> AsItemOp(k[j])]

\* C30: an item_edit of one remove leaves the items of the level that do not match
\* the signature of the op, in their order; and the item_ops of a batch carry the
\* valid adds and the removes that deleted an item, in the order of the batch, and
\* nothing is broadcast when there is none
C30_RemoveAllAndAcceptedOps ==
    [][\A ops \in ClearBatches :
           ItemEdit("c1", ops) =>
               /\ (Len(ops) = 1 /\ ops[1].op = "remove")
                      => ItemsOf(level_items', "ROOT")
                             = SelectSeq(ItemsOf(level_items, "ROOT"),
                                         LAMBDA it : ~Signature(it, ops[1]))
               /\ last'.arg = AcceptedOps(ops)
               /\ IF AcceptedOps(ops) = <<>> THEN h'["c1"] = Idle
                  ELSE /\ h'["c1"].pc = "gather"
                       /\ h'["c1"].cur[1].kind = "item_ops"
                       /\ h'["c1"].cur[1].ops = AcceptedOps(ops)]_vars

\* one remove has just deleted the items of kind 2 at 5,5, and the payload items
\* a and b and the marker of the cell are still there
C30_Witness ==
    /\ last.type = "item_edit"
    /\ last.arg = <<ItemRemove(5, 5, 2, "")>>
    /\ \E i, j, k \in 1..Len(ItemsOf(level_items, "ROOT")) :
           /\ ItemsOf(level_items, "ROOT")[i].payload = "a"
           /\ ItemsOf(level_items, "ROOT")[j].payload = "b"
           /\ ItemsOf(level_items, "ROOT")[k].kind = 1
    /\ \A i \in 1..Len(ItemsOf(level_items, "ROOT")) : ItemsOf(level_items, "ROOT")[i].kind # 2

\* ------------------------------------------------------------------ after a level_change
\* C31 (as stated): the map_ops, tile_ops, item_ops and portal_ops that a websocket
\* is sent are those of the level its metadata names: after a level_change it gets
\* none of the level it left
C31_NoOpsOfPreviousLevel ==
    [][\A c \in Conns :
           (h[c].pc = "gather" /\ h'[c].pc = "sent" /\ h[c].cur[1].kind \in EditKinds)
           => \A i \in 1..Len(h[c].cur[1].targets) :
                  h'[c].cur[1].results[i]
                  => /\ h[c].cur[1].targets[i] \in DOMAIN ws_meta
                     /\ ws_meta[h[c].cur[1].targets[i]][2] = h[c].cur[1].level]_vars

\* what level_change itself does: the scope is the channel the websocket had
\* (DEFAULT when it had none) with the new level, the bundle of the new level is
\* sent, and a broadcast that resolves its targets afterwards goes by the new level
C31_LevelChangeRescopes ==
    [][/\ last'.type = "level_change"
          => /\ ws_meta'[last'.conn] =
                    <<IF last'.conn \in DOMAIN ws_meta THEN ws_meta[last'.conn][1] ELSE "DEFAULT",
                      last'.level>>
             /\ [i \in 1..Len(last'.sent) |-> last'.sent[i].type]
                    = <<"map_full", "tiles_full", "portal_full", "items_full", "snapshot">>
       /\ \A c \in Conns :
              (h'[c].pc = "gather" /\ h'[c] # h[c] /\ h'[c].cur[1].kind \in EditKinds)
              => Range(h'[c].cur[1].targets)
                     = {w \in connections' : w \in DOMAIN ws_meta' /\ ws_meta'[w][2] = h'[c].cur[1].level}]_vars

\* ------------------------------------------------------------------ a send that fails
\* Specification of a broadcast with a dead target: c1, c2 and c3 identify in one
\* scope, the peer of c2 goes away and its handler ends, and c1 sends updates,
\* map edits and a tile edit that are broadcast to all three.
FanoutWatch == {"update", "map_ops", "tile_ops"}

FanoutNext ==
    \/ \E c \in Conns : Connect(c)
    \/ \E c \in Conns : (c \notin DOMAIN ws_meta /\ Hello(c, "player-" \o c, "C1", "ROOT", FanoutWatch))
    \/ Update("c1", NetUpdate)
    \/ MapEdit("c1", <<AddOp(<<3, 3, 0>>, LOCK)>>)
    \/ MapEdit("c1", <<RemoveOp(<<3, 3, 0>>)>>)
    \/ TileEdit("c1", <<SetTile(<<3, 3>>, 1)>>)
    \/ PeerClose("c2")
    \/ HandlerExit("c2")
    \/ RunSends("c1", FanoutWatch)
    \/ Resume("c1")

FanoutSpec == Init /\ [][FanoutNext]_vars

\* C32: in the gather of a broadcast every target whose transport is open is sent
\* the event, whatever happens to the sends to the other targets
C32_FailedSendAbortsNothing ==
    [][\A c \in Conns :
           (h[c].pc = "gather" /\ h'[c].pc = "sent")
           => \A i \in 1..Len(h[c].cur[1].targets) :
                  sock[h[c].cur[1].targets[i]] = "open"
                  => /\ h'[c].cur[1].results[i]
                     /\ wire'[h[c].cur[1].targets[i]]
                            = Append(wire[h[c].cur[1].targets[i]], PayloadOf(h[c].cur[1]))]_vars

\* the gather of c1 had the targets c1, c2 and c3: the send to c2 raised, and c3,
\* after it in the list, has the event as the last message on its wire
C32_Witness ==
    /\ h["c1"].pc = "sent"
    /\ h["c1"].cur[1].targets = <<"c1", "c2", "c3">>
    /\ h["c1"].cur[1].results = <<TRUE, FALSE, TRUE>>
    /\ wire["c3"] # <<>>
    /\ wire["c3"][Len(wire["c3"])] = PayloadOf(h["c1"].cur[1])

\* ------------------------------------------------------------------ the pairing after the gather
\* the targets of the broadcast whose send raised / returned
FailedTargets(b) == {b.targets[i] : i \in {j \in 1..Len(b.targets) : ~b.results[j]}}

SentTargets(b) == {b.targets[i] : i \in {j \in 1..Len(b.targets) : b.results[j]}}

Recorded(tracker, c, version) == c \in DOMAIN tracker /\ tracker[c] = version

\* C33 (as stated): the loop after the gather of broadcast_map_ops and
\* broadcast_tile_ops takes out of the directories only websockets whose own send
\* raised, and records the version only for websockets whose own send returned
C33_ReapsAndRecordsByOwnSend ==
    [][\A c \in Conns :
           (h[c].pc = "sent" /\ h'[c] # h[c] /\ h[c].cur[1].kind \in {"map_ops", "tile_ops"})
           => /\ connections \ connections' \subseteq FailedTargets(h[c].cur[1])
              /\ \A w \in Conns :
                     (/\ Recorded(ws_map_version', w, h[c].cur[1].version)
                      /\ ~Recorded(ws_map_version, w, h[c].cur[1].version))
                     => w \in SentTargets(h[c].cur[1])
              /\ \A w \in Conns :
                     (/\ Recorded(ws_tiles_version', w, h[c].cur[1].version)
                      /\ ~Recorded(ws_tiles_version, w, h[c].cur[1].version))
                     => w \in SentTargets(h[c].cur[1])]_vars

\* the same when the directories are, after the gather, what they were before it
C33_ByOwnSendWhenNothingMoved ==
    [][\A c \in Conns :
           (/\ h[c].pc = "sent" /\ h'[c] # h[c] /\ h[c].cur[1].kind \in {"map_ops", "tile_ops"}
            /\ connections = h[c].cur[1].connsAt
            /\ ws_meta = h[c].cur[1].metaAt)
           => /\ connections \ connections' = FailedTargets(h[c].cur[1])
              /\ \A w \in SentTargets(h[c].cur[1]) :
                     IF h[c].cur[1].kind = "map_ops"
                     THEN Recorded(ws_map_version', w, h[c].cur[1].version)
                     ELSE Recorded(ws_tiles_version', w, h[c].cur[1].version)]_vars

\* ------------------------------------------------------------------ updates that race
\* Specification of updates for one id from two websockets: c1 and c2 both send
\* updates for the player "player-c1", c1 from (C1, ROOT) and c2 from (C2, LEVELB)
\* with another position and state, while the clock moves and the sweeper runs.
RaceUpdate ==
    [c \in {"c1", "c2"} |->
        IF c = "c1" THEN NetUpdate
        ELSE [NetUpdate EXCEPT !.x = 7, !.y = 8, !.z = 9, !.state = "ball", !.rotation = 90,
                               !.channel = "C2", !.level = "LEVELB"]]

RaceNext ==
    \/ \E c \in {"c1", "c2"} : Connect(c)
    \/ \E c \in {"c1", "c2"} : Update(c, RaceUpdate[c])
    \/ \E d \in PresenceTicks : (AtInstant(now + d) /\ Tick(d))
    \/ SweeperTask
    \/ \E c \in {"c1", "c2"} : RunSends(c, {"update"})
    \/ \E c \in {"c1", "c2"} : Resume(c)

RaceSpec == Init /\ [][RaceNext]_vars

\* the event m carries what the update message v carried
Carries(m, v) ==
    /\ m.type = "update"
    /\ m.id = v.id /\ m.x = v.x /\ m.y = v.y /\ m.z = v.z
    /\ m.state = v.state /\ m.channel = v.channel /\ m.level = v.level

\* C34: the update event that the handler of a websocket builds, awaits and has
\* sent carries the id, position, state, channel and level of the update message of
\* that websocket and is scoped to its channel and level; the player of the message
\* is in the registry when the handler reads it back; and every update event on a
\* wire is the event of one of the two messages
C34_UpdateEventOfOwnMessage ==
    /\ \A c \in {"c1", "c2"} :
           (h[c].pc \in {"gather", "sent"})
           => /\ h[c].cur[1].kind = "update"
              /\ Carries(h[c].cur[1].ops, RaceUpdate[c])
              /\ h[c].cur[1].channel = RaceUpdate[c].channel
              /\ h[c].cur[1].level = RaceUpdate[c].level
    /\ (last.type = "update" => last.arg.id \in DOMAIN players)
    /\ \A w \in Conns : \A i \in 1..Len(wire[w]) :
           \E c \in {"c1", "c2"} : Carries(wire[w][i], RaceUpdate[c])

\* c2 updated the player while the gather of c1 for the same id was pending, the
\* registry holds what c2 sent, and c1 has had its own event sent
C34_Witness ==
    /\ h["c1"].pc = "sent"
    /\ h["c2"].pc \in {"gather", "sent"}
    /\ "player-c1" \in DOMAIN players
    /\ players["player-c1"].level = "LEVELB"
    /\ wire["c1"] # <<>>
    /\ Carries(wire["c1"][Len(wire["c1"])], RaceUpdate["c1"])
    /\ now > TTL_MS

\* ------------------------------------------------------------------ the directories
\* C35 (as stated): a websocket that has metadata, an id entry or a known version
\* is in the set connections
C35_DirectoriesOfLiveConnections ==
    (DOMAIN ws_meta \cup DOMAIN ws_to_id \cup DOMAIN ws_map_version \cup DOMAIN ws_tiles_version)
        \subseteq connections

\* ------------------------------------------------------------------ the scope of an update
\* C36: an update that is accepted sets the metadata of its websocket to the
\* channel and the level of the message, DEFAULT and ROOT standing in for a missing
\* one, whether the websocket had metadata or not, and leaves the metadata of the
\* other websockets alone
C36_UpdateSetsScope ==
    [][(last'.type = "update" /\ sock' = sock)
           => /\ last'.conn \in DOMAIN ws_meta'
              /\ ws_meta'[last'.conn] =
                     <<IF last'.arg.channel = "" THEN "DEFAULT" ELSE last'.arg.channel,
                       IF last'.arg.level = "" THEN "ROOT" ELSE last'.arg.level>>
              /\ \A w \in Conns \ {last'.conn} :
                     /\ w \in DOMAIN ws_meta' <=> w \in DOMAIN ws_meta
                     /\ w \in DOMAIN ws_meta => ws_meta'[w] = ws_meta[w]]_vars

\* c2, which said hello in (DEFAULT, LEVELB), is in (C1, ROOT) after an update
\* that names the channel C1 and no level
C36_Witness ==
    /\ last.type = "update"
    /\ last.conn = "c2"
    /\ last.arg.level = ""
    /\ "c2" \in DOMAIN ws_to_id
    /\ "c2" \in DOMAIN ws_tiles_version
    /\ "LEVELB" \in DOMAIN level_tiles
    /\ "c2" \in DOMAIN ws_meta
    /\ ws_meta["c2"] = <<"C1", "ROOT">>
    /\ sock["c2"] = "open"

\* c2 never said hello and has metadata after its update
C36_IdentifiedByUpdate ==
    /\ last.type = "update"
    /\ last.conn = "c2"
    /\ "c2" \notin DOMAIN ws_to_id
    /\ "c2" \in DOMAIN ws_meta

\* ------------------------------------------------------------------ the return portal that overwrites
\* Specification of a return portal that meets a mapping: c1 identifies in ROOT and
\* moves on to LEVELX, and sets and removes the portal of 0,5 toward LEVELB in
\* both; c2 watches the portal_ops in LEVELB.
OverwriteNext ==
    \/ \E c \in {"c1", "c2"} : Connect(c)
    \/ ("c1" \notin DOMAIN ws_meta /\ Hello("c1", "player-c1", "DEFAULT", "ROOT", {}))
    \/ ("c2" \notin DOMAIN ws_meta /\ Hello("c2", "player-c2", "DEFAULT", "LEVELB", {}))
    \/ LevelChange("c1", "LEVELX", {})
    \/ \E ops \in AgainPortalBatches : PortalEdit("c1", ops)
    \/ RunSends("c1", {"portal_ops"})
    \/ Resume("c1")

OverwriteSpec == Init /\ [][OverwriteNext]_vars

ReturnSet(L) == <<SetPortal(<<23, 5>>, L)>>

\* C37: when c1, in level L, sets the portal of 0,5 to LEVELB (a set that changes
\* the mapping of L) while 23,5 of LEVELB leads to a level other than L, 23,5 of
\* LEVELB leads to L afterwards, and the handler has a portal_ops with the set of
\* 23,5 to broadcast in LEVELB
C37_ReturnPortalOverwrites ==
    [][\A L \in {"ROOT", "LEVELX"} :
           (/\ "c1" \in DOMAIN ws_meta
            /\ ws_meta["c1"][2] = L
            /\ PortalEdit("c1", <<SetPortal(<<0, 5>>, "LEVELB")>>)
            /\ ~(/\ <<0, 5>> \in DOMAIN PortalsOf(level_portals, L)
                 /\ PortalsOf(level_portals, L)[<<0, 5>>] = "LEVELB")
            /\ <<23, 5>> \in DOMAIN PortalsOf(level_portals, "LEVELB")
            /\ PortalsOf(level_portals, "LEVELB")[<<23, 5>>] # L)
           => /\ PortalsOf(level_portals', "LEVELB")[<<23, 5>>] = L
              /\ \E b \in Range(h'["c1"].cur \o h'["c1"].todo) :
                     /\ b.kind = "portal_ops"
                     /\ b.level = "LEVELB"
                     /\ b.ops = ReturnSet(L)]_vars

\* the targets of a portal_ops of LEVELB are the websockets of LEVELB
C37_SentToDestination ==
    [][(h'["c1"].pc = "gather" /\ h'["c1"] # h["c1"] /\ h'["c1"].cur[1].kind = "portal_ops"
            /\ h'["c1"].cur[1].level = "LEVELB")
           => Range(h'["c1"].cur[1].targets)
                  = {w \in connections' : w \in DOMAIN ws_meta' /\ ws_meta'[w][2] = "LEVELB"}]_vars

\* 23,5 of LEVELB led to ROOT; c1, in LEVELX, has set 0,5 to LEVELB: 23,5 of
\* LEVELB leads to LEVELX, ROOT still leads to LEVELB, and c2 has been sent the set
C37_Witness ==
    /\ PortalsOf(level_portals, "ROOT") = (<<0, 5>> :> "LEVELB")
    /\ PortalsOf(level_portals, "LEVELX") = (<<0, 5>> :> "LEVELB")
    /\ PortalsOf(level_portals, "LEVELB") = (<<23, 5>> :> "LEVELX")
    /\ wire["c2"] # <<>>
    /\ wire["c2"][Len(wire["c2"])] = [type |-> "portal_ops", ops |-> ReturnSet("LEVELX")]

\* ------------------------------------------------------------------ bodies that are no JSON object
\* message bodies as text: one that json.loads rejects, and JSON values that are no
\* object
BrokenBody == "{"

NonObjectBodies == {"7", "\"hi\"", "[1]", "true", "false", "null"}

\* json.loads(raw), by the Python type of its result ("error": it raises)
json_loads(raw) ==
    CASE raw = BrokenBody -> "error"
      [] raw = "7" -> "int"
      [] raw = "\"hi\"" -> "str"
      [] raw = "[1]" -> "list"
      [] raw \in {"true", "false"} -> "bool"
      [] raw = "null" -> "NoneType"
      [] OTHER -> "dict"

\* data.get("type") of a value that is no dict raises AttributeError outside the
\* try of json.loads: the exception is no ConnectionClosed, so it leaves the handler
\* through the finally block, past the ws_meta.pop after it, and the server closes
\* the connection of the failed handler
Raise(c, raw) ==
    /\ Ready(c)
    /\ sock' = [sock EXCEPT ![c] = "closed"]
    /\ h' = [h EXCEPT ![c] = [pc |-> "done", cur |-> <<>>, todo |-> <<>>]]
    /\ connections' = connections \ {c}
    /\ ws_to_id' = Pop(ws_to_id, c)
    /\ last' = [Did("raise", c, "none", <<>>, <<>>) EXCEPT !.arg = raw]
    /\ UNCHANGED <<ws_meta, ws_map_version, ws_tiles_version, players, now, admin, stores,
                   wire, replica, replay>>

\* a message body that is no JSON object, as the loop of the handler takes it
Body(c, raw) ==
    IF json_loads(raw) = "error" THEN Drop(c, raw)
    ELSE IF json_loads(raw) # "dict" THEN Raise(c, raw)
    ELSE FALSE

\* two connections say hello in the same scope, the first updates its player and
\* edits the map, and the second sends bodies that are no JSON object
BodyNext ==
    \/ \E c \in {"c1", "c2"} : Connect(c)
    \/ \E c \in {"c1", "c2"} : (c \notin DOMAIN ws_meta /\ Hello(c, "player-" \o c, "C1", "ROOT", {"update", "map_ops"}))
    \/ Update("c1", NetUpdate)
    \/ MapEdit("c1", <<AddOp(<<3, 3, 0>>, LOCK)>>)
    \/ MapEdit("c1", <<RemoveOp(<<3, 3, 0>>)>>)
    \/ \E raw \in NonObjectBodies \cup {BrokenBody} : Body("c2", raw)
    \/ \E c \in {"c1", "c2"} : RunSends(c, {"update", "map_ops"})
    \/ \E c \in {"c1", "c2"} : Resume(c)

BodySpec == Init /\ [][BodyNext]_vars

\* C38: a message whose body is valid JSON but no JSON object is ignored like an
\* unparseable body: the connection stays open, its handler waits for the next
\* message, and no directory, player or store changes
C38_NonObjectIgnored ==
    [][\A raw \in NonObjectBodies :
          Body("c2", raw) =>
              /\ sock'["c2"] = "open"
              /\ h'["c2"].pc = "recv"
              /\ UNCHANGED <<dirs, players, stores>>]_vars

\* the unparseable body is ignored so: the connection that sent it stays open and
\* nothing shared changes
C38_BrokenBodyIgnored ==
    [][Body("c2", BrokenBody) =>
          /\ sock'["c2"] = "open"
          /\ h'["c2"].pc = "recv"
          /\ UNCHANGED <<dirs, players, stores>>]_vars

\* ------------------------------------------------------------------ the kinds of the stored items
\* MapItem.kind: 0 = payload, 1 = marker
ItemKinds == {0, 1}

\* C39: every item stored in the item list of any level has kind 0 (PAYLOAD) or 1
\* (MARKER): an item_edit op of any other kind stores nothing
C39_StoredKindsPayloadOrMarker ==
    \A l \in DOMAIN level_items :
        \A i \in 1..Len(level_items[l]) : level_items[l][i].kind \in ItemKinds

\* an add of kind 0 or 1 is stored with the kind it carries
C39_KnownKindStored ==
    [][\A k \in ItemKinds :
          ItemEdit("c1", <<ItemAdd(5, 5, 0, k, "a")>>) =>
              \E i \in 1..Len(level_items'["ROOT"]) :
                  /\ level_items'["ROOT"][i].kind = k
                  /\ level_items'["ROOT"][i].gx = 5
                  /\ level_items'["ROOT"][i].gy = 5]_vars

\* ------------------------------------------------------------------ the names of the stored levels
\* a name with a space, which LEVEL_NAME_RE does not match, and a name of 65
\* characters
IllFormedLevel == "bad level"

LongLevel == "abcdefghijklmnopqrstuvwxyzabcdefghijklmnopqrstuvwxyzabcdefghijklm"

\* LEVEL_NAME_RE.match(name): 1 to 64 letters, digits, underscores and hyphens
WellFormed(name) == name \in WellFormedLevels

NameDests == {"LEVELB", IllFormedLevel, LongLevel, ""}

\* Specification of the level names: c1 says hello and level_change with
\* well-formed and ill-formed level names, sets portals at a border cell and
\* inside the grid toward well-formed, ill-formed, overlong and empty names, and
\* puts a portal span on the border cell.
NameNext ==
    \/ Connect("c1")
    \/ \E l \in {"ROOT", IllFormedLevel} :
           ("c1" \notin DOMAIN ws_meta /\ HelloMsg("c1", "player-c1", "C1", l, {}))
    \/ \E l \in {"LEVELB", IllFormedLevel} :
           /\ "c1" \in DOMAIN ws_meta
           /\ ws_meta["c1"][2] # DefaultLevel(l)
           /\ LevelChange("c1", l, {})
    \/ \E k \in {<<0, 5>>, <<3, 3>>} : \E D \in NameDests : PortalEdit("c1", <<SetPortal(k, D)>>)
    \/ MapEdit("c1", <<AddOp(<<0, 5, 1>>, PORTAL_SPAN)>>)
    \/ RunSends("c1", {})
    \/ Resume("c1")

NameSpec == Init /\ [][NameNext]_vars

\* C40: every level name that keys a per-level store (map diffs, tile diffs, items,
\* portals) satisfies the level-name rule of hello, update and level_change
C40_StoredLevelsWellFormed ==
    \A l \in DOMAIN level_diffs \cup DOMAIN level_tiles \cup DOMAIN level_items
             \cup DOMAIN level_portals : WellFormed(l)

\* the scope of every connection has a well-formed level name, and a name of more
\* than 64 characters keys no store
C40_ScopesWellFormed ==
    /\ \A c \in DOMAIN ws_meta : WellFormed(ws_meta[c][2])
    /\ \A l \in DOMAIN level_diffs \cup DOMAIN level_tiles \cup DOMAIN level_items
               \cup DOMAIN level_portals : Len(l) <= DEST_MAX_LEN

====
